---- MODULE Spec2Model ----
(***************************************************************************)
(* A model of @depthbomb/env (src/src/lib/env.ts): the schema-driven      *)
(* validation and coercion of process.env.                                 *)
(*                                                                         *)
(* JavaScript values are tagged records; strings are TLA+ strings, read    *)
(* one character at a time with SubSeq.  Numbers are exact decimals        *)
(* k * 10^(-d), normalised so that equal numbers are equal records; NaN    *)
(* is a number of its own.                                                 *)
(***************************************************************************)
EXTENDS Integers, Sequences, FiniteSets, TLC

VARIABLES schema, env, pc, idx, values, error, visited, built, lastGet, changes,
          cpc, crule, craw, cout, cagain

vars == <<schema, env, pc, idx, values, error, visited, built, lastGet, changes,
          cpc, crule, craw, cout, cagain>>

driverVars == <<schema, env, pc, idx, values, error, visited, built, lastGet, changes>>

coerceVars == <<cpc, crule, craw, cout, cagain>>

-----------------------------------------------------------------------------
(* JavaScript values *)

Undefined == [t |-> "undefined"]

Null == [t |-> "null"]

Str(s) == [t |-> "string", s |-> s]

Bool(b) == [t |-> "boolean", b |-> b]

Arr(a) == [t |-> "array", a |-> a]

NaN == [t |-> "number", nan |-> TRUE]

RECURSIVE Norm(_, _)
\* the decimal k * 10^(-d) without trailing fractional zeros
Norm(k, d) ==
    IF d > 0 /\ k % 10 = 0 THEN Norm(k \div 10, d - 1)
    ELSE [t |-> "number", k |-> k, d |-> d]

Num(k) == Norm(k, 0)

\* the typeof operator
TypeOf(v) ==
    IF v.t \in {"array", "null"} THEN "object" ELSE v.t

IsArray(v) == v.t = "array"

IsNaN(v) == v.t = "number" /\ "nan" \in DOMAIN v

RECURSIVE Pow10(_)
Pow10(n) == IF n = 0 THEN 1 ELSE 10 * Pow10(n - 1)

\* a < b on numbers; every comparison with NaN is false
NumLt(a, b) ==
    /\ ~IsNaN(a)
    /\ ~IsNaN(b)
    /\ a.k * Pow10(b.d) < b.k * Pow10(a.d)

\* Number.isInteger
IsInteger(v) == v.t = "number" /\ ~IsNaN(v) /\ v.d = 0

-----------------------------------------------------------------------------
(* Strings *)

Char(s, i) == SubSeq(s, i, i)

IsSpace(c) == c \in {" ", "\t", "\n"}

IsDigit(c) == c \in {"0", "1", "2", "3", "4", "5", "6", "7", "8", "9"}

DigitVal(c) ==
    CASE c = "0" -> 0 [] c = "1" -> 1 [] c = "2" -> 2 [] c = "3" -> 3 [] c = "4" -> 4
      [] c = "5" -> 5 [] c = "6" -> 6 [] c = "7" -> 7 [] c = "8" -> 8 [] c = "9" -> 9

AllDigits(s) == \A i \in 1..Len(s) : IsDigit(Char(s, i))

RECURSIVE DigitsVal(_)
\* the value of a string of decimal digits; 0 for the empty string
DigitsVal(s) ==
    IF Len(s) = 0 THEN 0
    ELSE 10 * DigitsVal(SubSeq(s, 1, Len(s) - 1)) + DigitVal(Char(s, Len(s)))

RECURSIVE TrimStart(_)
TrimStart(s) ==
    IF Len(s) > 0 /\ IsSpace(Char(s, 1)) THEN TrimStart(SubSeq(s, 2, Len(s))) ELSE s

RECURSIVE TrimEnd(_)
TrimEnd(s) ==
    IF Len(s) > 0 /\ IsSpace(Char(s, Len(s))) THEN TrimEnd(SubSeq(s, 1, Len(s) - 1)) ELSE s

\* String.prototype.trim
Trim(s) == TrimEnd(TrimStart(s))

\* the position of the first occurrence of the character c in s, 0 when there is none
IndexOf(s, c) ==
    IF \E i \in 1..Len(s) : Char(s, i) = c
    THEN CHOOSE i \in 1..Len(s) : Char(s, i) = c /\ \A j \in 1..(i - 1) : Char(s, j) # c
    ELSE 0

\* the decimal with integer digits ip and fraction digits fp, negated when neg
Decimal(neg, ip, fp) ==
    LET k == DigitsVal(ip \o fp)
    IN  Norm(IF neg THEN 0 - k ELSE k, Len(fp))

\* Number(s) for the strings of the model: optional sign, digits with an optional
\* fraction ("7", "7.", "7.5", ".5"); the empty or blank string is 0; anything
\* else is NaN. The alphabets of the model hold no exponent, radix prefix or
\* "Infinity".
ToNumber(s) ==
    LET tr   == Trim(s)
        sgn  == Len(tr) > 0 /\ Char(tr, 1) \in {"+", "-"}
        body == IF sgn THEN SubSeq(tr, 2, Len(tr)) ELSE tr
        dot  == IndexOf(body, ".")
        ip   == IF dot = 0 THEN body ELSE SubSeq(body, 1, dot - 1)
        fp   == IF dot = 0 THEN "" ELSE SubSeq(body, dot + 1, Len(body))
    IN  IF tr = "" THEN Num(0)
        ELSE IF AllDigits(ip) /\ AllDigits(fp) /\ Len(ip) + Len(fp) > 0
             THEN Decimal(sgn /\ Char(tr, 1) = "-", ip, fp)
             ELSE NaN

-----------------------------------------------------------------------------
(* JSON.parse, for texts without objects, escapes and exponents *)

\* the message of the SyntaxError JSON.parse throws, whose wording is the engine's
SyntaxErrorMessage == "SyntaxError"

NoParse == [ok |-> FALSE, message |-> SyntaxErrorMessage]

StartsWith(s, p) == Len(s) >= Len(p) /\ SubSeq(s, 1, Len(p)) = p

Drop(s, n) == SubSeq(s, n + 1, Len(s))

IsNumChar(c) == IsDigit(c) \/ c \in {"-", "."}

RECURSIVE NumPrefixLen(_)
\* the length of the longest prefix of s made of digits, "-" and "."
NumPrefixLen(s) ==
    IF Len(s) > 0 /\ IsNumChar(Char(s, 1)) THEN 1 + NumPrefixLen(Drop(s, 1)) ELSE 0

\* a JSON number: -? (0 | [1-9][0-9]*) (. [0-9]+)?
IsJSONNumber(s) ==
    LET body == IF StartsWith(s, "-") THEN Drop(s, 1) ELSE s
        dot  == IndexOf(body, ".")
        ip   == IF dot = 0 THEN body ELSE SubSeq(body, 1, dot - 1)
        fp   == IF dot = 0 THEN "" ELSE Drop(body, dot)
    IN  /\ Len(ip) > 0
        /\ AllDigits(ip)
        /\ (Len(ip) > 1 => Char(ip, 1) # "0")
        /\ AllDigits(fp)
        /\ (dot # 0 => Len(fp) > 0)

RECURSIVE ParseJSONValue(_)
RECURSIVE ParseJSONElements(_, _)
\* the elements of an array after "[": s starts at an element, acc holds those read
ParseJSONElements(s, acc) ==
    LET r == ParseJSONValue(s)
    IN  IF ~r.ok THEN NoParse
        ELSE LET t == TrimStart(r.rest)
             IN  IF StartsWith(t, ",")
                 THEN ParseJSONElements(TrimStart(Drop(t, 1)), Append(acc, r.v))
                 ELSE IF StartsWith(t, "]")
                      THEN [ok |-> TRUE, v |-> Arr(Append(acc, r.v)), rest |-> Drop(t, 1)]
                      ELSE NoParse

\* one JSON value at the start of s (s has no leading whitespace) and the text after it
ParseJSONValue(s) ==
    IF StartsWith(s, "\"")
    THEN LET close == IndexOf(Drop(s, 1), "\"")
         IN  IF close = 0 THEN NoParse
             ELSE [ok |-> TRUE, v |-> Str(SubSeq(s, 2, close)), rest |-> Drop(s, close + 1)]
    ELSE IF StartsWith(s, "[")
    THEN LET t == TrimStart(Drop(s, 1))
         IN  IF StartsWith(t, "]")
             THEN [ok |-> TRUE, v |-> Arr(<<>>), rest |-> Drop(t, 1)]
             ELSE ParseJSONElements(t, <<>>)
    ELSE IF StartsWith(s, "true")
    THEN [ok |-> TRUE, v |-> Bool(TRUE), rest |-> Drop(s, 4)]
    ELSE IF StartsWith(s, "false")
    THEN [ok |-> TRUE, v |-> Bool(FALSE), rest |-> Drop(s, 5)]
    ELSE IF StartsWith(s, "null")
    THEN [ok |-> TRUE, v |-> Null, rest |-> Drop(s, 4)]
    ELSE LET n   == NumPrefixLen(s)
             lit == SubSeq(s, 1, n)
         IN  IF n > 0 /\ IsJSONNumber(lit)
             THEN [ok |-> TRUE, v |-> ToNumber(lit), rest |-> Drop(s, n)]
             ELSE NoParse

\* JSON.parse(s): the value, or NoParse where JSON.parse throws a SyntaxError
JSONParse(s) ==
    LET r == ParseJSONValue(TrimStart(s))
    IN  IF r.ok /\ TrimStart(r.rest) = "" THEN [ok |-> TRUE, v |-> r.v] ELSE NoParse

-----------------------------------------------------------------------------
(* The coercion engine: Env.validateValue *)

\* a returned value
Ok(v) == [ok |-> TRUE, v |-> v]

\* a thrown Error: msg is the fixed part of its text after "[path] "
Throw(msg, path) == [ok |-> FALSE, msg |-> msg, path |-> path]

\* an optional field of a rule is a field the record may lack
Has(rule, f) == f \in DOMAIN rule

Flag(rule, f) == Has(rule, f) /\ rule[f]

\* `${path}[${i}]`
ItemPath(path, i) == path \o "[" \o ToString(i) \o "]"

assertValueIsString(v, path) ==
    IF TypeOf(v) # "string"
    THEN Throw("expected string but got " \o TypeOf(v), path)
    ELSE Ok(v)

\* RegExp patterns of string rules, by source text: String.prototype.search(p) # -1
Search(s, pattern) ==
    CASE pattern = "^\\d+$" -> Len(s) > 0 /\ AllDigits(s)
      [] pattern = "7"      -> IndexOf(s, "7") # 0

\* a variant of validateString: the length bounds are checked on the raw string,
\* before it is trimmed
validateStringRawLength(rule, raw, path) ==
    LET a == assertValueIsString(raw, path)
        s == IF Flag(rule, "trim") THEN Trim(raw.s) ELSE raw.s
    IN  IF ~a.ok THEN a
        ELSE IF Has(rule, "pattern") /\ ~Search(s, rule.pattern)
        THEN Throw("expected pattern", path)
        ELSE IF Has(rule, "minLength") /\ Len(raw.s) < rule.minLength
        THEN Throw("expected string length to be a minimum of", path)
        ELSE IF Has(rule, "maxLength") /\ Len(raw.s) > rule.maxLength
        THEN Throw("expected string length to be a maximum of", path)
        ELSE Ok(Str(s))

validateString(rule, raw, path) ==
    LET a == assertValueIsString(raw, path)
        s == IF Flag(rule, "trim") THEN Trim(raw.s) ELSE raw.s
    IN  IF ~a.ok THEN a
        ELSE IF Has(rule, "pattern") /\ ~Search(s, rule.pattern)
        THEN Throw("expected pattern", path)
        ELSE IF Has(rule, "minLength") /\ Len(s) < rule.minLength
        THEN Throw("expected string length to be a minimum of", path)
        ELSE IF Has(rule, "maxLength") /\ Len(s) > rule.maxLength
        THEN Throw("expected string length to be a maximum of", path)
        ELSE Ok(Str(s))

\* a variant of rawNumber: only strings are read (no typeof raw === 'number' branch)
rawNumberStringsOnly(raw, path) ==
    IF TypeOf(raw) = "string"
    THEN LET trimmed == Trim(raw.s)
         IN  IF trimmed = "" THEN Throw("expected number but got", path)
             ELSE IF IsNaN(ToNumber(trimmed)) THEN Throw("expected number but got", path)
             ELSE Ok(ToNumber(trimmed))
    ELSE Throw("expected number but got", path)

\* a variant of rawNumber: no check of the trimmed string against ''
rawNumberBlankZero(raw, path) ==
    IF TypeOf(raw) = "number" THEN Ok(raw)
    ELSE IF TypeOf(raw) = "string"
    THEN IF IsNaN(ToNumber(Trim(raw.s))) THEN Throw("expected number but got", path)
         ELSE Ok(ToNumber(Trim(raw.s)))
    ELSE Throw("expected number but got", path)

\* lines 127-142: the number n of a raw number or numeric string
rawNumber(raw, path) ==
    IF TypeOf(raw) = "number" THEN Ok(raw)
    ELSE IF TypeOf(raw) = "string"
    THEN LET trimmed == Trim(raw.s)
         IN  IF trimmed = "" THEN Throw("expected number but got", path)
             ELSE IF IsNaN(ToNumber(trimmed)) THEN Throw("expected number but got", path)
             ELSE Ok(ToNumber(trimmed))
    ELSE Throw("expected number but got", path)

\* a variant of checkNumber: no Number.isInteger check for int rules
checkNumberAnyFraction(rule, n, path) ==
    IF Flag(rule, "positive") /\ NumLt(n, Num(0))
    THEN Throw("expected number to be positive", path)
    ELSE IF Flag(rule, "negative") /\ NumLt(Num(0), n)
    THEN Throw("expected number to be negative", path)
    ELSE IF Has(rule, "min") /\ NumLt(n, rule.min)
    THEN Throw("expected number to be >=", path)
    ELSE IF Has(rule, "max") /\ NumLt(rule.max, n)
    THEN Throw("expected number to be <=", path)
    ELSE IF Has(rule, "range") /\ (NumLt(n, rule.range[1]) \/ NumLt(rule.range[2], n))
    THEN Throw("expected number to be within range", path)
    ELSE Ok(n)

\* lines 144-173: the checks on n
checkNumber(rule, n, path) ==
    IF rule.type = "int" /\ ~IsInteger(n)
    THEN Throw("expected integer but got", path)
    ELSE IF Flag(rule, "positive") /\ NumLt(n, Num(0))
    THEN Throw("expected number to be positive", path)
    ELSE IF Flag(rule, "negative") /\ NumLt(Num(0), n)
    THEN Throw("expected number to be negative", path)
    ELSE IF Has(rule, "min") /\ NumLt(n, rule.min)
    THEN Throw("expected number to be >=", path)
    ELSE IF Has(rule, "max") /\ NumLt(rule.max, n)
    THEN Throw("expected number to be <=", path)
    ELSE IF Has(rule, "range") /\ (NumLt(n, rule.range[1]) \/ NumLt(rule.range[2], n))
    THEN Throw("expected number to be within range", path)
    ELSE Ok(n)

validateNumber(rule, raw, path) ==
    LET n == rawNumber(raw, path)
    IN  IF ~n.ok THEN n ELSE checkNumber(rule, n.v, path)

\* String.prototype.toLowerCase, one character
LowerChar(c) ==
    LET i == IndexOf("ABCDEFGHIJKLMNOPQRSTUVWXYZ", c)
    IN  IF i = 0 THEN c ELSE Char("abcdefghijklmnopqrstuvwxyz", i)

RECURSIVE ToLowerCase(_)
\* String.prototype.toLowerCase, the two halves of s one after the other
ToLowerCase(s) ==
    IF Len(s) = 0 THEN ""
    ELSE IF Len(s) = 1 THEN LowerChar(s)
    ELSE ToLowerCase(SubSeq(s, 1, Len(s) \div 2))
             \o ToLowerCase(SubSeq(s, Len(s) \div 2 + 1, Len(s)))

\* the own properties of Env.booleanMap
booleanMap ==
    [s \in {"true", "1", "yes", "y", "on", "enabled"} |-> Bool(TRUE)] @@
    [s \in {"false", "0", "no", "n", "off", "disabled"} |-> Bool(FALSE)]

\* Object, the value of the property "constructor" every object literal inherits
ObjectConstructor == [t |-> "function", f |-> "Object"]

\* Object.prototype, the value of the property "__proto__" of an object literal
ObjectPrototype == [t |-> "object", o |-> "Object.prototype"]

\* the properties booleanMap inherits from Object.prototype: the operator `in`
\* and the property read both follow the prototype chain
inheritedProperties ==
    [s \in {"constructor"} |-> ObjectConstructor] @@
    [s \in {"__proto__"} |-> ObjectPrototype] @@
    [s \in {"hasOwnProperty", "isPrototypeOf", "propertyIsEnumerable", "toLocaleString",
            "toString", "valueOf", "__defineGetter__", "__defineSetter__",
            "__lookupGetter__", "__lookupSetter__"} |-> [t |-> "function", f |-> s]]

\* s in this.booleanMap
InBooleanMap(s) == s \in DOMAIN booleanMap \/ s \in DOMAIN inheritedProperties

\* this.booleanMap[s]
BooleanMapGet(s) ==
    IF s \in DOMAIN booleanMap THEN booleanMap[s] ELSE inheritedProperties[s]

validateBoolean(rule, raw, path) ==
    IF TypeOf(raw) = "boolean" THEN Ok(raw)
    ELSE IF TypeOf(raw) = "string" /\ InBooleanMap(Trim(ToLowerCase(raw.s)))
    THEN Ok(BooleanMapGet(Trim(ToLowerCase(raw.s))))
    ELSE Throw("expected boolean but got " \o TypeOf(raw), path)

\* Array.prototype.includes on a list of primitive choices
Includes(choices, v) == \E i \in 1..Len(choices) : choices[i] = v

\* a variant of validateEnum: a raw string is trimmed before it is looked up
validateEnumTrimmed(rule, raw, path) ==
    IF Includes(rule.choices, IF TypeOf(raw) = "string" THEN Str(Trim(raw.s)) ELSE raw)
    THEN Ok(raw)
    ELSE Throw("expected one of", path)

\* lines 189-196
validateEnum(rule, raw, path) ==
    IF Includes(rule.choices, raw) THEN Ok(raw)
    ELSE Throw("expected one of", path)

\* the functions given as parser in the rules of the model:
\*   wrapNumber   (raw) => [Number(raw)]
\*   sevenOnly    (raw) => { if (!raw.startsWith('7')) throw new Error('no seven');
\*                           return raw.length; }
\*   throwString  (raw) => { throw 'no'; }   (what it throws has no message)
customParser(name, s) ==
    CASE name = "wrapNumber"  -> [ok |-> TRUE, v |-> Arr(<<ToNumber(s)>>)]
      [] name = "sevenOnly"   -> IF StartsWith(s, "7") THEN [ok |-> TRUE, v |-> Num(Len(s))]
                                 ELSE [ok |-> FALSE, message |-> "no seven"]
      [] name = "throwString" -> [ok |-> FALSE, message |-> "undefined"]

\* lines 200-204: the value the parser returned, or its error wrapped
jsonResult(parsed, path) ==
    IF parsed.ok THEN Ok(parsed.v)
    ELSE Throw("expected valid JSON: " \o parsed.message, path)

\* a variant of validateJson: rule.parser is not looked at
validateJsonNoParser(rule, raw, path) ==
    IF TypeOf(raw) = "string" THEN jsonResult(JSONParse(raw.s), path)
    ELSE Ok(raw)

\* lines 197-208
validateJson(rule, raw, path) ==
    IF TypeOf(raw) = "string"
    THEN jsonResult(IF Has(rule, "parser") THEN customParser(rule.parser, raw.s)
                    ELSE JSONParse(raw.s), path)
    ELSE Ok(raw)

\* the position of the first occurrence of the string sep in s, 0 when there is none
FindStr(s, sep) ==
    LET hits == {i \in 1..(Len(s) - Len(sep) + 1) : SubSeq(s, i, i + Len(sep) - 1) = sep}
    IN  IF hits = {} THEN 0 ELSE CHOOSE i \in hits : \A j \in hits : i <= j

RECURSIVE Split(_, _)
\* String.prototype.split with a non-empty separator
Split(s, sep) ==
    LET at == FindStr(s, sep)
    IN  IF at = 0 THEN <<s>>
        ELSE <<SubSeq(s, 1, at - 1)>> \o Split(Drop(s, at + Len(sep) - 1), sep)

\* the equality of Set: primitives by value, NaN equal to NaN; the arrays a
\* coercion returns are fresh objects, equal to no other
SameValueZero(a, b) == a = b /\ a.t # "array"

\* new Set(list).size # list.length
HasDuplicates(list) ==
    \E i, j \in 1..Len(list) : i < j /\ SameValueZero(list[i], list[j])

\* a number of the duration and bytes grammars: -?(?:\d+(?:\.\d+)?|\.\d+)
IsUnitNumber(s) ==
    LET body == IF StartsWith(s, "-") THEN Drop(s, 1) ELSE s
        dot  == IndexOf(body, ".")
        ip   == IF dot = 0 THEN body ELSE SubSeq(body, 1, dot - 1)
        fp   == IF dot = 0 THEN "" ELSE Drop(body, dot)
    IN  /\ AllDigits(ip)
        /\ AllDigits(fp)
        /\ (dot = 0 => Len(ip) > 0)
        /\ (dot # 0 => Len(fp) > 0)

\* multiplierMap of the duration rule
durationMultiplier(unit) ==
    CASE unit = "ms" -> 1
      [] unit = "s"  -> 1000
      [] unit = "m"  -> 60000
      [] unit = "h"  -> 3600000

\* n * m for a number n and an integer m
NumMul(n, m) == Norm(n.k * m, n.d)

\* a variant of rawDuration: whitespace may stand between the number and the
\* unit, as in the grammar of the bytes rule
rawDurationSpaced(raw, path) ==
    IF TypeOf(raw) = "number" THEN Ok(raw)
    ELSE IF TypeOf(raw) = "string"
    THEN LET trimmed  == ToLowerCase(Trim(raw.s))
             n        == NumPrefixLen(trimmed)
             valueStr == SubSeq(trimmed, 1, n)
             unit     == TrimStart(Drop(trimmed, n))
         IN  IF trimmed = "" THEN Throw("expected duration but got", path)
             ELSE IF ~(IsUnitNumber(valueStr) /\ unit \in {"", "ms", "s", "m", "h"})
             THEN Throw("expected duration format like", path)
             ELSE Ok(NumMul(ToNumber(valueStr), durationMultiplier(IF unit = "" THEN "ms" ELSE unit)))
    ELSE Throw("expected duration but got", path)

\* lines 269-295: the milliseconds of a raw number or duration string
rawDuration(raw, path) ==
    IF TypeOf(raw) = "number" THEN Ok(raw)
    ELSE IF TypeOf(raw) = "string"
    THEN LET trimmed  == ToLowerCase(Trim(raw.s))
             n        == NumPrefixLen(trimmed)
             valueStr == SubSeq(trimmed, 1, n)
             unit     == Drop(trimmed, n)
         IN  IF trimmed = "" THEN Throw("expected duration but got", path)
             ELSE IF ~(IsUnitNumber(valueStr) /\ unit \in {"", "ms", "s", "m", "h"})
             THEN Throw("expected duration format like", path)
             ELSE Ok(NumMul(ToNumber(valueStr), durationMultiplier(IF unit = "" THEN "ms" ELSE unit)))
    ELSE Throw("expected duration but got", path)

\* a variant of checkDuration: the bounds are exclusive
checkDurationExclusive(rule, durationMs, path) ==
    IF IsNaN(durationMs)
    THEN Throw("expected finite duration but got", path)
    ELSE IF Has(rule, "minMs") /\ ~NumLt(rule.minMs, durationMs)
    THEN Throw("expected duration to be >=", path)
    ELSE IF Has(rule, "maxMs") /\ ~NumLt(durationMs, rule.maxMs)
    THEN Throw("expected duration to be <=", path)
    ELSE Ok(durationMs)

\* lines 297-311: the checks on the milliseconds
checkDuration(rule, durationMs, path) ==
    IF IsNaN(durationMs)
    THEN Throw("expected finite duration but got", path)
    ELSE IF Has(rule, "minMs") /\ NumLt(durationMs, rule.minMs)
    THEN Throw("expected duration to be >=", path)
    ELSE IF Has(rule, "maxMs") /\ NumLt(rule.maxMs, durationMs)
    THEN Throw("expected duration to be <=", path)
    ELSE Ok(durationMs)

validateDuration(rule, raw, path) ==
    LET d == rawDuration(raw, path)
    IN  IF ~d.ok THEN d ELSE checkDuration(rule, d.v, path)

\* multiplierMap of the bytes rule; a multiplier is held as the factors whose
\* product it is, 1_000_000_000_000 and 1_099_511_627_776 being out of the range
\* of the integers the operators below compute with
bytesMultiplier(unit) ==
    CASE unit = "b"   -> <<>>
      [] unit = "kb"  -> <<1000>>
      [] unit = "mb"  -> <<1000, 1000>>
      [] unit = "gb"  -> <<1000, 1000, 1000>>
      [] unit = "tb"  -> <<1000, 1000, 1000, 1000>>
      [] unit = "kib" -> <<1024>>
      [] unit = "mib" -> <<1024, 1024>>
      [] unit = "gib" -> <<1024, 1024, 1024>>
      [] unit = "tib" -> <<1024, 1024, 1024, 1024>>

bytesUnits == {"b", "kb", "mb", "gb", "tb", "kib", "mib", "gib", "tib"}

RECURSIVE NumMulAll(_, _, _)
\* k * 10^-d times the product of factors, a ten of the divisor cancelled against
\* k and the factor at hand before the two are multiplied
NumMulAll(k, d, factors) ==
    IF factors = <<>> THEN Norm(k, d)
    ELSE LET f    == Head(factors)
             rest == Tail(factors)
         IN  IF d = 0 THEN NumMulAll(k * f, 0, rest)
             ELSE IF f % 10 = 0 THEN NumMulAll(k, d - 1, <<f \div 10>> \o rest)
             ELSE IF f % 2 = 0 /\ k % 5 = 0
             THEN NumMulAll(k \div 5, d - 1, <<f \div 2>> \o rest)
             ELSE IF f % 5 = 0 /\ k % 2 = 0
             THEN NumMulAll(k \div 2, d - 1, <<f \div 5>> \o rest)
             ELSE NumMulAll(k * f, d, rest)

\* value * multiplierMap[unit] in the binary64 arithmetic of JavaScript numbers.
\* Number("2.01") * 1000 is 2009.9999999999998 and Number("1.001") * 1000 is
\* 1000.9999999999999, held here to four decimals; every other product of the
\* strings of the model is the exact one
bytesProduct(valueStr, unit) ==
    IF valueStr = "2.01" /\ unit = "kb" THEN Norm(20099999, 4)
    ELSE IF valueStr = "1.001" /\ unit = "kb" THEN Norm(10009999, 4)
    ELSE NumMulAll(ToNumber(valueStr).k, ToNumber(valueStr).d, bytesMultiplier(unit))

\* a variant of bytesProduct: the product of the decimal value and the
\* multiplier, without the rounding of binary64 arithmetic
bytesProductExact(valueStr, unit) ==
    NumMulAll(ToNumber(valueStr).k, ToNumber(valueStr).d, bytesMultiplier(unit))

\* lines 314-345: the bytes of a raw number or byte size string, matched against
\* /^(-?(?:\d+(?:\.\d+)?|\.\d+))\s*(b|kb|mb|gb|tb|kib|mib|gib|tib)?$/
rawBytes(raw, path) ==
    IF TypeOf(raw) = "number" THEN Ok(raw)
    ELSE IF TypeOf(raw) = "string"
    THEN LET trimmed  == ToLowerCase(Trim(raw.s))
             n        == NumPrefixLen(trimmed)
             valueStr == SubSeq(trimmed, 1, n)
             unit     == TrimStart(Drop(trimmed, n))
         IN  IF trimmed = "" THEN Throw("expected bytes but got", path)
             ELSE IF ~(IsUnitNumber(valueStr) /\ unit \in bytesUnits \cup {""})
             THEN Throw("expected byte size format like", path)
             ELSE Ok(bytesProduct(valueStr, IF unit = "" THEN "b" ELSE unit))
    ELSE Throw("expected bytes but got", path)

\* a variant of checkBytes: no lower bound when the rule has no min, as for the
\* milliseconds of a duration
checkBytesAnySign(rule, bytes, path) ==
    IF IsNaN(bytes)
    THEN Throw("expected finite byte size but got", path)
    ELSE IF ~IsInteger(bytes)
    THEN Throw("expected byte size to resolve to a whole number but got", path)
    ELSE IF Has(rule, "min") /\ NumLt(bytes, rule.min)
    THEN Throw("expected byte size to be >=", path)
    ELSE IF Has(rule, "max") /\ NumLt(rule.max, bytes)
    THEN Throw("expected byte size to be <=", path)
    ELSE Ok(bytes)

\* lines 347-369: the checks on the bytes
checkBytes(rule, bytes, path) ==
    IF IsNaN(bytes)
    THEN Throw("expected finite byte size but got", path)
    ELSE IF ~IsInteger(bytes)
    THEN Throw("expected byte size to resolve to a whole number but got", path)
    ELSE IF NumLt(bytes, Num(0))
    THEN Throw("expected byte size to be non-negative", path)
    ELSE IF NumLt(bytes, IF Has(rule, "min") THEN rule.min ELSE Num(0))
    THEN Throw("expected byte size to be >=", path)
    ELSE IF Has(rule, "max") /\ NumLt(rule.max, bytes)
    THEN Throw("expected byte size to be <=", path)
    ELSE Ok(bytes)

validateBytes(rule, raw, path) ==
    LET b == rawBytes(raw, path)
    IN  IF ~b.ok THEN b ELSE checkBytes(rule, b.v, path)

\* a variant of validatePort: a blank string is not turned down before Number,
\* which makes 0 of it
validatePortBlankZero(rule, raw, path) ==
    LET num == IF TypeOf(raw) = "number" THEN raw
               ELSE IF TypeOf(raw) = "string" THEN ToNumber(Trim(raw.s))
               ELSE NaN
    IN  IF IsNaN(num) \/ ~IsInteger(num) \/ NumLt(num, Num(0)) \/ NumLt(Num(65535), num)
        THEN Throw("expected valid port (0-65535) but got", path)
        ELSE Ok(num)

validatePort(rule, raw, path) ==
    LET num == IF TypeOf(raw) = "number" THEN raw
               ELSE IF TypeOf(raw) = "string" THEN ToNumber(Trim(raw.s))
               ELSE NaN
    IN  IF TypeOf(raw) = "string" /\ Trim(raw.s) = ""
        THEN Throw("expected valid port (0-65535) but got", path)
        ELSE IF IsNaN(num) \/ ~IsInteger(num) \/ NumLt(num, Num(0)) \/ NumLt(Num(65535), num)
        THEN Throw("expected valid port (0-65535) but got", path)
        ELSE Ok(num)

\* emailRegex: /^[^\s@]+@[^\s@]+\.[^\s@]+$/
emailRegex(s) ==
    LET at     == IndexOf(s, "@")
        domain == Drop(s, at)
    IN  /\ \A i \in 1..Len(s) : ~IsSpace(Char(s, i))
        /\ at > 1
        /\ IndexOf(domain, "@") = 0
        /\ \E p \in 2..(Len(domain) - 1) : Char(domain, p) = "."

validateEmail(rule, raw, path) ==
    LET a == assertValueIsString(raw, path)
    IN  IF ~a.ok THEN a
        ELSE IF ~emailRegex(raw.s) THEN Throw("expected valid email", path)
        ELSE Ok(raw)

\* [a-zA-Z0-9]
IsAlnum(c) ==
    IndexOf("ABCDEFGHIJKLMNOPQRSTUVWXYZabcdefghijklmnopqrstuvwxyz0123456789", c) # 0

\* the filesystem the process runs on, by path: a file, a directory, an entry
\* whose stat fails, or nothing
PathKind(p) ==
    CASE p = "a"   -> "file"
      [] p = "7"   -> "dir"
      [] p = "a.7" -> "unreadable"
      [] OTHER     -> "none"

existsSync(p) == PathKind(p) # "none"

\* lines 393-406: the check of an existing path against pathType file or dir
checkPathType(pathType, pathValue, path) ==
    IF PathKind(pathValue) = "unreadable"
    THEN Throw("expected path to be readable", path)
    ELSE IF pathType = "file" /\ PathKind(pathValue) # "file"
    THEN Throw("expected path to be a file", path)
    ELSE IF pathType = "dir" /\ PathKind(pathValue) # "dir"
    THEN Throw("expected path to be a directory", path)
    ELSE Ok(Str(pathValue))

\* a variant of checkPath: a path of type file or dir is stat-ed whether it
\* exists or not
checkPathStatAlways(rule, pathValue, pathType, path) ==
    IF pathValue = "" THEN Throw("expected non-empty path", path)
    ELSE IF pathType \notin {"any", "file", "dir"}
    THEN Throw("unsupported path type", path)
    ELSE IF Flag(rule, "exists") /\ ~existsSync(pathValue)
    THEN Throw("expected path to exist", path)
    ELSE IF pathType # "any"
    THEN IF existsSync(pathValue) THEN checkPathType(pathType, pathValue, path)
         ELSE Throw("expected path to be readable", path)
    ELSE Ok(Str(pathValue))

\* lines 374-392: the trimmed path against the options of the rule
checkPath(rule, pathValue, pathType, path) ==
    IF pathValue = "" THEN Throw("expected non-empty path", path)
    ELSE IF pathType \notin {"any", "file", "dir"}
    THEN Throw("unsupported path type", path)
    ELSE IF Flag(rule, "exists") /\ ~existsSync(pathValue)
    THEN Throw("expected path to exist", path)
    ELSE IF pathType # "any" /\ existsSync(pathValue)
    THEN checkPathType(pathType, pathValue, path)
    ELSE Ok(Str(pathValue))

validatePath(rule, raw, path) ==
    IF TypeOf(raw) # "string" THEN assertValueIsString(raw, path)
    ELSE checkPath(rule, Trim(raw.s), IF Has(rule, "pathType") THEN rule.pathType ELSE "any",
                   path)

\* [A-Za-z0-9+/], with urlSafe [A-Za-z0-9\-_]
IsBase64Char(c, urlSafe) ==
    IsAlnum(c) \/ (IF urlSafe THEN c \in {"-", "_"} ELSE c \in {"+", "/"})

\* the number of alphabet characters s starts with
Base64PrefixLen(s, urlSafe) ==
    CHOOSE k \in 0..Len(s) :
        /\ \A i \in 1..k : IsBase64Char(Char(s, i), urlSafe)
        /\ k < Len(s) => ~IsBase64Char(Char(s, k + 1), urlSafe)

\* a variant of base64Pattern: the pattern of padding 'optional' whatever the
\* padding mode of the rule
base64PatternAnyPadding(value, k, padding) ==
    LET rest == Drop(value, k)
    IN  \/ rest = "" /\ k % 4 \in {0, 2, 3}
        \/ rest = "==" /\ k % 4 = 2
        \/ rest = "=" /\ k % 4 = 3

\* lines 421-433: pattern.test(value), the pattern being groups of four alphabet
\* characters and a last group XX==, XXX= (padding required or optional) or XX,
\* XXX (padding forbidden or optional); k alphabet characters come first
base64Pattern(value, k, padding) ==
    LET rest == Drop(value, k)
    IN  \/ rest = "" /\ k % 4 = 0
        \/ rest = "" /\ k % 4 \in {2, 3} /\ padding \in {"forbidden", "optional"}
        \/ rest = "==" /\ k % 4 = 2 /\ padding \in {"required", "optional"}
        \/ rest = "=" /\ k % 4 = 3 /\ padding \in {"required", "optional"}

\* lines 411-441: the trimmed value against the options of the rule
checkBase64(value, urlSafe, padding, path) ==
    IF value = "" THEN Throw("expected non-empty base64 string", path)
    ELSE IF padding \notin {"required", "optional", "forbidden"}
    THEN Throw("unsupported base64 padding mode", path)
    ELSE IF ~base64Pattern(value, Base64PrefixLen(value, urlSafe), padding)
    THEN Throw(IF urlSafe THEN "expected valid URL-safe base64 string"
               ELSE "expected valid base64 string", path)
    ELSE Ok(Str(value))

validateBase64(rule, raw, path) ==
    IF TypeOf(raw) # "string" THEN assertValueIsString(raw, path)
    ELSE checkBase64(Trim(raw.s), Has(rule, "urlSafe") /\ rule.urlSafe = TRUE,
                     IF Has(rule, "padding") THEN rule.padding ELSE "optional", path)

\* [a-zA-Z0-9]([a-zA-Z0-9-]*[a-zA-Z0-9])?
IsHostLabel(label) ==
    /\ Len(label) > 0
    /\ IsAlnum(Char(label, 1))
    /\ IsAlnum(Char(label, Len(label)))
    /\ \A i \in 1..Len(label) : IsAlnum(Char(label, i)) \/ Char(label, i) = "-"

\* hostRegex: labels separated by "."
hostRegex(labels) == \A i \in 1..Len(labels) : IsHostLabel(labels[i])

validateHost(rule, raw, path) ==
    IF TypeOf(raw) # "string" THEN assertValueIsString(raw, path)
    ELSE IF ~hostRegex(Split(raw.s, ".")) /\ raw.s # "localhost"
    THEN Throw("expected valid hostname", path)
    ELSE Ok(raw)

\* The case of secret rules is not in env.ts, which declares the rule
\* (ISecretRule) and is tested on it ('validates secret options'); it is modelled
\* here from the specification of the rule and from the messages of its tests.

IsLowerLetter(c) == IndexOf("abcdefghijklmnopqrstuvwxyz", c) # 0

IsUpperLetter(c) == IndexOf("ABCDEFGHIJKLMNOPQRSTUVWXYZ", c) # 0

\* the character class of c: SecretClass = 'lower' | 'upper' | 'digit' | 'symbol'
secretClass(c) ==
    IF IsLowerLetter(c) THEN "lower"
    ELSE IF IsUpperLetter(c) THEN "upper"
    ELSE IF IsDigit(c) THEN "digit"
    ELSE "symbol"

\* whether a character of class cls occurs in s, as 1 or 0
hasClass(s, cls) ==
    IF \E i \in 1..Len(s) : secretClass(Char(s, i)) = cls THEN 1 ELSE 0

\* the number of character classes that occur in s
countClasses(s) ==
    hasClass(s, "lower") + hasClass(s, "upper") + hasClass(s, "digit") + hasClass(s, "symbol")

\* a variant of validateSecret: the character classes are not counted
validateSecretLengthOnly(rule, raw, path) ==
    IF TypeOf(raw) # "string" THEN assertValueIsString(raw, path)
    ELSE IF Has(rule, "minLength") /\ Len(raw.s) < rule.minLength
    THEN Throw("expected secret length to be >= " \o ToString(rule.minLength), path)
    ELSE IF Has(rule, "maxLength") /\ Len(raw.s) > rule.maxLength
    THEN Throw("expected secret length to be <= " \o ToString(rule.maxLength), path)
    ELSE Ok(raw)

\* the secret rule: the length bounds, then the count of character classes
validateSecret(rule, raw, path) ==
    IF TypeOf(raw) # "string" THEN assertValueIsString(raw, path)
    ELSE IF Has(rule, "minLength") /\ Len(raw.s) < rule.minLength
    THEN Throw("expected secret length to be >= " \o ToString(rule.minLength), path)
    ELSE IF Has(rule, "maxLength") /\ Len(raw.s) > rule.maxLength
    THEN Throw("expected secret length to be <= " \o ToString(rule.maxLength), path)
    ELSE IF Has(rule, "minClasses") /\ countClasses(raw.s) < rule.minClasses
    THEN Throw("expected secret to contain at least " \o ToString(rule.minClasses)
                   \o " character classes", path)
    ELSE Ok(raw)

\* enum HashAlgorithm { MD5, SHA1, SHA256, SHA384, SHA512 }: the numbers of the
\* names, and HashAlgorithm[n], the name of a number
HashAlgorithm == [MD5 |-> 0, SHA1 |-> 1, SHA256 |-> 2, SHA384 |-> 3, SHA512 |-> 4]

HashAlgorithmName(n) == CHOOSE name \in DOMAIN HashAlgorithm : HashAlgorithm[name] = n

\* algorithmLengthMap, keyed by the numbers of the algorithms
algorithmLengthMap ==
    (HashAlgorithm.MD5 :> 32) @@ (HashAlgorithm.SHA1 :> 40) @@ (HashAlgorithm.SHA256 :> 64)
        @@ (HashAlgorithm.SHA384 :> 96) @@ (HashAlgorithm.SHA512 :> 128)

IsHexDigit(c) == IndexOf("0123456789abcdefABCDEF", c) # 0

\* hexadecimalRegex.test(s). env.ts imports the expression from regex.ts, which
\* does not hold it; it is taken as /^[0-9a-fA-F]+$/, the hexadecimal strings of
\* the specification, which the tests agree with ('deadBEEF' passes, 'xyz' fails)
hexadecimalRegex(s) ==
    /\ Len(s) > 0
    /\ \A i \in 1..Len(s) : IsHexDigit(Char(s, i))

\* a variant of validateHash: the length is a minimum, not the exact length
validateHashMinLength(rule, raw, path) ==
    IF TypeOf(raw) # "string" THEN assertValueIsString(raw, path)
    ELSE IF ~hexadecimalRegex(raw.s) THEN Throw("expected hexadecimal string", path)
    ELSE IF rule.algorithm \notin DOMAIN algorithmLengthMap
    THEN Throw("unsupported hash algorithm", path)
    ELSE IF Len(raw.s) < algorithmLengthMap[rule.algorithm]
    THEN Throw("expected valid " \o HashAlgorithmName(rule.algorithm) \o " string", path)
    ELSE Ok(raw)

validateHash(rule, raw, path) ==
    IF TypeOf(raw) # "string" THEN assertValueIsString(raw, path)
    ELSE IF ~hexadecimalRegex(raw.s) THEN Throw("expected hexadecimal string", path)
    ELSE IF rule.algorithm \notin DOMAIN algorithmLengthMap
    THEN Throw("unsupported hash algorithm", path)
    ELSE IF Len(raw.s) # algorithmLengthMap[rule.algorithm]
    THEN Throw("expected valid " \o HashAlgorithmName(rule.algorithm) \o " string", path)
    ELSE Ok(raw)

validateHexadecimal(rule, raw, path) ==
    IF TypeOf(raw) # "string" THEN assertValueIsString(raw, path)
    ELSE IF ~hexadecimalRegex(raw.s) THEN Throw("expected hexadecimal string", path)
    ELSE Ok(raw)

RECURSIVE validateValue(_, _, _)

RECURSIVE mapItems(_, _, _, _, _)
\* a variant of mapNext: every item is validated and the last error is thrown
mapNextLastError(itemRule, items, path, i, acc, r) ==
    LET rest == mapItems(itemRule, items, path, i + 1, IF r.ok THEN Append(acc, r.v) ELSE acc)
    IN  IF ~rest.ok THEN rest
        ELSE IF ~r.ok THEN r
        ELSE rest

\* the map of mapItems after the callback returned or threw r for position i
mapNext(itemRule, items, path, i, acc, r) ==
    IF ~r.ok THEN r
    ELSE mapItems(itemRule, items, path, i + 1, Append(acc, r.v))

\* items.map((item, i) => this.validateValue(itemRule, item, `${path}[${i}]`)) from
\* position i on (index i - 1), acc holding the items coerced so far: the first
\* item that throws ends the map
mapItems(itemRule, items, path, i, acc) ==
    IF i > Len(items) THEN Ok(Arr(acc))
    ELSE mapNext(itemRule, items, path, i, acc,
                 validateValue(itemRule, items[i], ItemPath(path, i - 1)))

\* a variant of rawArray: a blank string is not taken as the empty array
rawArrayBlankFails(raw, path) ==
    IF TypeOf(raw) = "string"
    THEN LET trimmed == Trim(raw.s)
             parsed  == JSONParse(trimmed)
         IN  IF ~StartsWith(trimmed, "[")
             THEN Throw("expected JSON array (e.g. '[1,2,3]')", path)
             ELSE IF ~parsed.ok \/ ~IsArray(parsed.v)
             THEN Throw("expected valid JSON array", path)
             ELSE Ok(parsed.v)
    ELSE IF IsArray(raw) THEN Ok(raw)
    ELSE Throw("expected array but got " \o TypeOf(raw), path)

\* lines 211-236: the array arr of a raw JSON array literal or array
rawArray(raw, path) ==
    IF TypeOf(raw) = "string"
    THEN LET trimmed == Trim(raw.s)
             parsed  == JSONParse(trimmed)
         IN  IF trimmed = "" THEN Ok(Arr(<<>>))
             ELSE IF ~StartsWith(trimmed, "[")
             THEN Throw("expected JSON array (e.g. '[1,2,3]')", path)
             ELSE IF ~parsed.ok \/ ~IsArray(parsed.v)
             THEN Throw("expected valid JSON array", path)
             ELSE Ok(parsed.v)
    ELSE IF IsArray(raw) THEN Ok(raw)
    ELSE Throw("expected array but got " \o TypeOf(raw), path)

\* line 238: the items of arr coerced by the item rule
mapArray(rule, arr, path) ==
    IF ~arr.ok THEN arr
    ELSE mapItems(rule.itemType, arr.v.a, path, 1, <<>>)

validateArray(rule, raw, path) == mapArray(rule, rawArray(raw, path), path)

\* a variant of rawList: a blank string is taken as the empty list, as the
\* array rule takes it
rawListBlankEmpty(rule, raw, path) ==
    LET separator  == IF Has(rule, "separator") THEN rule.separator ELSE ","
        shouldTrim == ~(Has(rule, "trim") /\ rule.trim = FALSE)
        items      == Split(raw.s, separator)
    IN  IF TypeOf(raw) = "string"
        THEN IF Trim(raw.s) = "" THEN Ok(Arr(<<>>))
             ELSE Ok(Arr([i \in 1..Len(items) |->
                             Str(IF shouldTrim THEN Trim(items[i]) ELSE items[i])]))
        ELSE IF IsArray(raw) THEN Ok(raw)
        ELSE Throw("expected delimited list but got " \o TypeOf(raw), path)

\* lines 245-256: the items of a raw delimited string or array
rawList(rule, raw, path) ==
    LET separator  == IF Has(rule, "separator") THEN rule.separator ELSE ","
        shouldTrim == ~(Has(rule, "trim") /\ rule.trim = FALSE)
        items      == Split(raw.s, separator)
    IN  IF TypeOf(raw) = "string"
        THEN Ok(Arr([i \in 1..Len(items) |->
                        Str(IF shouldTrim THEN Trim(items[i]) ELSE items[i])]))
        ELSE IF IsArray(raw) THEN Ok(raw)
        ELSE Throw("expected delimited list but got " \o TypeOf(raw), path)

\* lines 259-266: the uniqueness check on the coerced items
checkUnique(rule, parsedList, path) ==
    IF ~parsedList.ok THEN parsedList
    ELSE IF Flag(rule, "unique") /\ HasDuplicates(parsedList.v.a)
    THEN Throw("expected list items to be unique", path)
    ELSE parsedList

\* a variant of mapList: the uniqueness check is made on the raw items, before
\* the item rule sees them
mapListUniqueFirst(rule, items, path) ==
    IF ~items.ok THEN items
    ELSE IF Flag(rule, "unique") /\ HasDuplicates(items.v.a)
    THEN Throw("expected list items to be unique", path)
    ELSE checkUnique(rule, mapItems(rule.itemType, items.v.a, path, 1, <<>>), path)

\* line 258: the items coerced by the item rule
mapList(rule, items, path) ==
    IF ~items.ok THEN items
    ELSE checkUnique(rule, mapItems(rule.itemType, items.v.a, path, 1, <<>>), path)

validateList(rule, raw, path) == mapList(rule, rawList(rule, raw, path), path)

\* the switch on rule.type
validateValue(rule, raw, path) ==
    CASE rule.type = "string"                    -> validateString(rule, raw, path)
      [] rule.type \in {"number", "int", "float"} -> validateNumber(rule, raw, path)
      [] rule.type = "boolean"                   -> validateBoolean(rule, raw, path)
      [] rule.type = "enum"                      -> validateEnum(rule, raw, path)
      [] rule.type = "json"                      -> validateJson(rule, raw, path)
      [] rule.type = "array"                     -> validateArray(rule, raw, path)
      [] rule.type = "list"                      -> validateList(rule, raw, path)
      [] rule.type = "duration"                  -> validateDuration(rule, raw, path)
      [] rule.type = "bytes"                     -> validateBytes(rule, raw, path)
      [] rule.type = "port"                      -> validatePort(rule, raw, path)
      [] rule.type = "email"                     -> validateEmail(rule, raw, path)
      [] rule.type = "host"                      -> validateHost(rule, raw, path)
      [] rule.type = "path"                      -> validatePath(rule, raw, path)
      [] rule.type = "base64"                    -> validateBase64(rule, raw, path)
      [] rule.type = "secret"                    -> validateSecret(rule, raw, path)
      [] rule.type = "hash"                      -> validateHash(rule, raw, path)
      [] rule.type = "hexadecimal"               -> validateHexadecimal(rule, raw, path)
      [] OTHER -> Throw("unsupported validation rule " \o rule.type, path)

-----------------------------------------------------------------------------
(* The resolution driver: Env.create, the constructor, parseAndValidate, get *)

\* the longest schema the model declares
MaxEntries == 2

\* how many times process.env is changed after construction
MaxChanges == 1

\* names of environment variables; "1" is an integer-like property name
Keys == {"B", "A", "1"}

NoRule == [type |-> "none"]

None == [none |-> TRUE]

\* the rules of the schemas: Env.schema.string(), string({ required: false }),
\* int({ required: false, defaultValue: 'x' }), duration({ defaultValue: '1.5h' }),
\* int({ required: false, defaultValue: 5 }), array(int(), { required: true })
SchemaRules ==
    { [type |-> "string"],
      [type |-> "string", required |-> FALSE],
      [type |-> "int", required |-> FALSE, defaultValue |-> Str("x")],
      [type |-> "duration", defaultValue |-> Str("1.5h")],
      [type |-> "int", required |-> FALSE, defaultValue |-> Num(5)],
      [type |-> "array", itemType |-> [type |-> "int"], required |-> TRUE] }

\* what process.env holds for a name: nothing, or a string
EnvValues == {Undefined, Str(""), Str("7"), Str("[7]"), Str("[7.5]")}

\* what a later assignment or delete leaves in process.env
ChangedValues == {Undefined, Str("7.5")}

\* the schemas as declared: object literals of up to MaxEntries properties,
\* a sequence of <<key, rule>> in the order written
Schemas ==
    UNION { { sch \in [1..n -> Keys \X SchemaRules] :
                \A i, j \in 1..n : i # j => sch[i][1] # sch[j][1] } : n \in 0..MaxEntries }

\* a canonical array index: the property names an object enumerates first
IsArrayIndex(key) ==
    /\ Len(key) > 0
    /\ AllDigits(key)
    /\ (Len(key) > 1 => Char(key, 1) # "0")

RECURSIVE SortByIndex(_)
\* entries with integer-like keys in ascending numeric order
SortByIndex(entries) ==
    IF Len(entries) = 0 THEN <<>>
    ELSE LET m == CHOOSE i \in 1..Len(entries) :
                      \A j \in 1..Len(entries) :
                          DigitsVal(entries[i][1]) <= DigitsVal(entries[j][1])
         IN  <<entries[m]>> \o
             SortByIndex(SubSeq(entries, 1, m - 1) \o SubSeq(entries, m + 1, Len(entries)))

IsIndexEntry(entry) == IsArrayIndex(entry[1])

IsNameEntry(entry) == ~IsArrayIndex(entry[1])

\* Object.entries(this.schema): integer-like keys first, in ascending order, then
\* the other keys in the order they were written
ObjectEntries(sch) ==
    SortByIndex(SelectSeq(sch, IsIndexEntry)) \o SelectSeq(sch, IsNameEntry)

\* a variant of isRequired: required only when the rule says so (rule.required === true)
isRequiredExplicit(rule) == Has(rule, "required") /\ rule.required = TRUE

\* rule.required !== false
isRequired(rule) == ~(Has(rule, "required") /\ rule.required = FALSE)

\* rule.defaultValue !== undefined
HasDefault(rule) == Has(rule, "defaultValue") /\ rule.defaultValue # Undefined

\* a variant of IsMissing: the empty string counts as a value (raw === undefined)
IsMissingUndefinedOnly(raw) == raw = Undefined

\* raw === undefined || raw === ''
IsMissing(raw) == raw = Undefined \/ raw = Str("")

\* Map.prototype.set
MapSet(map, key, value) == (key :> value) @@ map

\* a variant of MapGet: a name the map does not hold is read from process.env
MapGetOrEnv(map, key) == IF key \in DOMAIN map THEN map[key] ELSE env[key]

\* Map.prototype.get
MapGet(map, key) == IF key \in DOMAIN map THEN map[key] ELSE Undefined

\* this.values.set(key, parsed), unless validateValue threw
storeParsed(map, key, parsed) ==
    IF ~parsed.ok THEN parsed ELSE Ok(MapSet(map, key, parsed.v))

\* a variant of resolveEntry: the default is stored as written, without validateValue
resolveEntryVerbatimDefault(map, key, rule, raw) ==
    IF IsMissing(raw) /\ isRequired(rule) /\ ~HasDefault(rule)
    THEN Throw("is required but not defined", key)
    ELSE IF IsMissing(raw) /\ ~HasDefault(rule)
    THEN Ok(map)
    ELSE IF IsMissing(raw)
    THEN Ok(MapSet(map, key, rule.defaultValue))
    ELSE storeParsed(map, key, validateValue(rule, raw, key))

\* a variant of resolveEntry: a raw value the rule rejects gives way to the default
resolveEntryFallback(map, key, rule, raw) ==
    IF IsMissing(raw) /\ isRequired(rule) /\ ~HasDefault(rule)
    THEN Throw("is required but not defined", key)
    ELSE IF IsMissing(raw) /\ ~HasDefault(rule)
    THEN Ok(map)
    ELSE IF IsMissing(raw) \/ (HasDefault(rule) /\ ~validateValue(rule, raw, key).ok)
    THEN storeParsed(map, key, validateValue(rule, rule.defaultValue, key))
    ELSE storeParsed(map, key, validateValue(rule, raw, key))

\* the body of the loop of parseAndValidate for one entry: what it throws, or
\* the map after it
resolveEntry(map, key, rule, raw) ==
    IF IsMissing(raw) /\ isRequired(rule) /\ ~HasDefault(rule)
    THEN Throw("is required but not defined", key)
    ELSE IF IsMissing(raw) /\ ~HasDefault(rule)
    THEN Ok(map)
    ELSE storeParsed(map, key,
                     validateValue(rule, IF IsMissing(raw) THEN rule.defaultValue ELSE raw, key))

CoerceIdle ==
    /\ cpc = "off"
    /\ crule = NoRule
    /\ craw = Undefined
    /\ cout = None
    /\ cagain = None

Init ==
    /\ schema \in Schemas
    /\ env \in [Keys -> EnvValues]
    /\ pc = "idle"
    /\ idx = 0
    /\ values = <<>>
    /\ error = None
    /\ visited = <<>>
    /\ built = None
    /\ lastGet = None
    /\ changes = 0
    /\ CoerceIdle

\* Env.create(schema): the constructor stores the schema and enters the loop of
\* parseAndValidate; with no entry it returns the instance at once
Create ==
    /\ pc = "idle"
    /\ idx' = 1
    /\ pc' = IF Len(ObjectEntries(schema)) = 0 THEN "ready" ELSE "running"
    /\ built' = IF Len(ObjectEntries(schema)) = 0 THEN values ELSE built
    /\ UNCHANGED <<schema, env, values, error, visited, lastGet, changes>>
    /\ UNCHANGED coerceVars

\* a variant of Iterate: a throw is kept and the loop goes on to the last entry
IterateCollect(key, n, r) ==
    /\ visited' = Append(visited, key)
    /\ values' = IF r.ok THEN r.v ELSE values
    /\ error' = IF r.ok THEN error ELSE r
    /\ idx' = idx + 1
    /\ pc' = IF idx < n THEN "running"
             ELSE IF r.ok /\ error = None THEN "ready" ELSE "failed"
    /\ built' = IF idx = n /\ r.ok /\ error = None THEN r.v ELSE built

\* the end of one iteration, r being what the body of the loop did with the entry
\* of n entries: a throw ends the construction, the last entry returns the instance
Iterate(key, n, r) ==
    /\ visited' = Append(visited, key)
    /\ IF r.ok
       THEN /\ values' = r.v
            /\ error' = error
            /\ idx' = idx + 1
            /\ pc' = IF idx = n THEN "ready" ELSE "running"
            /\ built' = IF idx = n THEN r.v ELSE built
       ELSE /\ error' = r
            /\ pc' = "failed"
            /\ UNCHANGED <<values, idx, built>>

\* the entry at position i of Object.entries(this.schema) read against process.env
ResolveEntryAt(entries, i) ==
    Iterate(entries[i][1], Len(entries),
            resolveEntry(values, entries[i][1], entries[i][2], env[entries[i][1]]))

\* one iteration of the loop over Object.entries(this.schema)
Resolve ==
    /\ pc = "running"
    /\ ResolveEntryAt(ObjectEntries(schema), idx)
    /\ UNCHANGED <<schema, env, lastGet, changes>>
    /\ UNCHANGED coerceVars

\* a variant of get: a name process.env holds is read from it, not from the map
getLive(key) ==
    /\ pc = "ready"
    /\ lastGet' = [key |-> key,
                   v |-> IF env[key] # Undefined THEN env[key] ELSE MapGet(values, key),
                   at |-> changes]
    /\ UNCHANGED <<schema, env, pc, idx, values, error, visited, built, changes>>
    /\ UNCHANGED coerceVars

\* env.get(key) on the instance Env.create returned; lastGet keeps the call, what
\* it returned and how many changes of process.env preceded it
get(key) ==
    /\ pc = "ready"
    /\ lastGet' = [key |-> key, v |-> MapGet(values, key), at |-> changes]
    /\ UNCHANGED <<schema, env, pc, idx, values, error, visited, built, changes>>
    /\ UNCHANGED coerceVars

\* the program assigns or deletes process.env[key] after the construction
ChangeEnv(key, v) ==
    /\ pc = "ready"
    /\ changes < MaxChanges
    /\ env[key] # v
    /\ env' = [env EXCEPT ![key] = v]
    /\ changes' = changes + 1
    /\ UNCHANGED <<schema, pc, idx, values, error, visited, built, lastGet>>
    /\ UNCHANGED coerceVars

Next ==
    \/ Create
    \/ Resolve
    \/ \E key \in Keys : get(key)
    \/ \E key \in Keys, v \in ChangedValues : ChangeEnv(key, v)

Spec == Init /\ [][Next]_vars

\* ---------------------------------------------------------------------------
\* validateValue on its own: one rule, one raw value, the result, and the
\* result given to the same rule again

\* longest raw string built from Chars
MaxLen == 3

Chars == {"7", "5", "0", ".", "-", " ", "a"}

RECURSIVE StringsUpTo(_)
StringsUpTo(n) ==
    IF n = 0 THEN {""}
    ELSE LET shorter == StringsUpTo(n - 1)
         IN  shorter \cup {s \o c : s \in shorter, c \in Chars}

RECURSIVE HexText(_)
\* a hexadecimal string of n characters
HexText(n) ==
    IF n <= 8 THEN SubSeq("aB7f09Ec", 1, n) ELSE "aB7f09Ec" \o HexText(n - 8)

\* strings of the lengths of the hashes, one shorter and one longer, and strings
\* of these lengths that are not hexadecimal
HashStrings ==
    {HexText(n) : n \in {31, 32, 33, 40, 64, 96, 128, 129}}
        \cup {"g" \o HexText(n - 1) : n \in {32, 64}}
        \cup {HexText(31) \o " ", "abc123", "xyz", "deadBEEF"}

\* raw strings with more structure than MaxLen characters of Chars hold
ExtraStrings ==
    { "[7]", "[7.5]", "[7,\"a\"]", "[\"a\",7]", "[\"7\",\"a\"]", "[[7],[7.5]]", "[\"7\",7]", " [ 7 , 5 ] ",
      "[[7],[7,\"a\"]]", "[\"[7]\"]", "\"a\"", "\"7\"", "[]", "null",
      "true", " YES ", " YES ,Off", "Off", "maybe", "constructor", "__proto__", "[\"constructor\"]",
      "a,a", "7,7", " a , 7 ", "7|7", "[7],[7]", "7, 7.0", "a, a ,7", "7, 7.5", "7,a", "a|a", "7,7|7,a", "constructor,no",
      "64MB", "1.5GiB", "0.1B", "256KB", "1GB", "1 kb", " 2 KiB ", "1MiB", "0.001TB",
      "0.0009765625TiB", "2.01KB", "1.001kb", "-1KB", "1KBs", "64 M B", "1.5KiB", "64m",
      "1.5h", "500ms", "10d", "7 s", " 1.5H ", "30S", "5m", ".5s", "-5m", "5.s", "5 ms", "5sm", "8080", "65535", "65536", "1s", "-5s", "60s", "61s", "999ms", "1000", "0.5s", "1", "50", "75", "7,7,a", "7|7|a", "a,7,7", "3000", " 3000 ", "70000", "80.0", "80.5", "-1", "3000a", "a@a.aa", "a@a",
      "Str0ngSecret1!", "weakpassword", "Weakpassword", "aA7!", "aA", "Aa7",
      "a7a7", "a7==", "SGVsbG8gd29ybGQ=", "SGVsbG8gd29ybGQ", "-w", "-w==", "a7a7a=", "a7a7a7a",
      "a7a7a7==", "a7=", "a7a7=", "a7a7==", "a7/+", "a7_-", "a7=a", "==", " a75= ", "a-a7", "a+a7", "a.a-7", "localhost", " a.7 " }

RawStrings == StringsUpTo(MaxLen) \cup ExtraStrings \cup HashStrings

\* raw values that are no strings: defaults and items of parsed arrays
RawOthers ==
    { Num(7), Num(0), Num(-7), Norm(75, 1), Num(8080), NaN, Bool(TRUE), Bool(FALSE), Null,
      Arr(<<>>), Arr(<<Num(7)>>), Arr(<<Str("7"), Str("a")>>), Arr(<<Str("a"), Str("a")>>),
      Arr(<<Num(7), Num(7)>>), Arr(<<Arr(<<Num(7)>>), Arr(<<Str("a")>>)>>) }

RawValues == {Str(s) : s \in RawStrings} \cup RawOthers

NumberKinds == {"number", "int", "float"}

NumberRules ==
    UNION { { [type |-> kind],
              [type |-> kind, positive |-> TRUE],
              [type |-> kind, negative |-> TRUE],
              [type |-> kind, min |-> Num(5), max |-> Num(70)],
              [type |-> kind, range |-> <<Num(0), Num(7)>>],
              [type |-> kind, min |-> Num(5), max |-> Num(70), range |-> <<Num(0), Num(7)>>],
              [type |-> kind, min |-> Num(0), range |-> <<Num(5), Num(70)>>],
              [type |-> kind, positive |-> TRUE, negative |-> TRUE] } : kind \in NumberKinds }

ScalarRules ==
    NumberRules \cup
    { [type |-> "string"],
      [type |-> "string", trim |-> TRUE],
      [type |-> "string", trim |-> TRUE, minLength |-> 2, maxLength |-> 3],
      [type |-> "string", pattern |-> "^\\d+$"],
      [type |-> "string", trim |-> TRUE, pattern |-> "7", minLength |-> 2],
      [type |-> "string", minLength |-> 2, maxLength |-> 3],
      [type |-> "string", trim |-> TRUE, pattern |-> "^\\d+$", maxLength |-> 2],
      [type |-> "boolean"],
      [type |-> "enum", choices |-> <<Str("a"), Str("7")>>],
      [type |-> "enum", choices |-> <<Num(7), Bool(TRUE), Str("")>>],
      [type |-> "json"],
      [type |-> "json", parser |-> "wrapNumber"],
      [type |-> "json", parser |-> "sevenOnly"],
      [type |-> "json", parser |-> "throwString"],
      [type |-> "bytes"],
      [type |-> "bytes", min |-> Num(1024)],
      [type |-> "bytes", min |-> Num(5), max |-> Num(64000000)],
      [type |-> "duration"],
      [type |-> "duration", minMs |-> Num(1000), maxMs |-> Num(60000)],
      [type |-> "duration", minMs |-> Num(1000)],
      [type |-> "duration", maxMs |-> Num(0)],
      [type |-> "port"],
      [type |-> "email"],
      [type |-> "host"],
      [type |-> "path"],
      [type |-> "path", exists |-> TRUE, pathType |-> "file"],
      [type |-> "path", pathType |-> "dir"],
      [type |-> "path", pathType |-> "file"],
      [type |-> "path", exists |-> TRUE],
      [type |-> "base64"],
      [type |-> "base64", padding |-> "required"],
      [type |-> "base64", urlSafe |-> TRUE, padding |-> "forbidden"],
      [type |-> "base64", urlSafe |-> TRUE],
      [type |-> "base64", padding |-> "forbidden"],
      [type |-> "base64", urlSafe |-> TRUE, padding |-> "required"],
      [type |-> "hash", algorithm |-> HashAlgorithm.MD5],
      [type |-> "hash", algorithm |-> HashAlgorithm.SHA1],
      [type |-> "hash", algorithm |-> HashAlgorithm.SHA256],
      [type |-> "hash", algorithm |-> HashAlgorithm.SHA384],
      [type |-> "hash", algorithm |-> HashAlgorithm.SHA512],
      [type |-> "hash", algorithm |-> 5],
      [type |-> "hexadecimal"],
      [type |-> "secret"],
      [type |-> "secret", minLength |-> 12, minClasses |-> 3],
      [type |-> "secret", maxLength |-> 8],
      [type |-> "secret", minLength |-> 2, maxLength |-> 3, minClasses |-> 2] }

CollectionRules ==
    { [type |-> "array", itemType |-> [type |-> "int"]],
      [type |-> "array", itemType |-> [type |-> "string"]],
      [type |-> "array", itemType |-> [type |-> "boolean"]],
      [type |-> "array", itemType |-> [type |-> "json"]],
      [type |-> "array", itemType |-> [type |-> "duration"]],
      [type |-> "array", itemType |-> [type |-> "array", itemType |-> [type |-> "int"]]],
      [type |-> "list", itemType |-> [type |-> "int"]],
      [type |-> "list", itemType |-> [type |-> "string"]],
      [type |-> "list", itemType |-> [type |-> "string"], unique |-> TRUE],
      [type |-> "list", itemType |-> [type |-> "int"], unique |-> TRUE],
      [type |-> "list", itemType |-> [type |-> "string"], separator |-> "|", trim |-> FALSE],
      [type |-> "list", itemType |-> [type |-> "boolean"]],
      [type |-> "list", itemType |-> [type |-> "string"], separator |-> " "],
      [type |-> "list", itemType |-> [type |-> "json"], unique |-> TRUE],
      [type |-> "list", itemType |-> [type |-> "list", itemType |-> [type |-> "int"]],
       separator |-> "|", unique |-> TRUE],
      [type |-> "list", itemType |-> [type |-> "list", itemType |-> [type |-> "int"]],
       separator |-> "|"] }

CoerceRules == ScalarRules \cup CollectionRules

\* the path validateValue is called with: the name of the variable
CoerceKey == "K"

DriverIdle ==
    /\ schema = <<>>
    /\ env = [key \in Keys |-> Undefined]
    /\ pc = "off"
    /\ idx = 0
    /\ values = <<>>
    /\ error = None
    /\ visited = <<>>
    /\ built = None
    /\ lastGet = None
    /\ changes = 0

CoerceInit ==
    /\ DriverIdle
    /\ cpc = "input"
    /\ crule \in CoerceRules
    /\ craw \in RawValues
    /\ cout = None
    /\ cagain = None

\* validateValue(rule, raw, key)
Coerce ==
    /\ cpc = "input"
    /\ cout' = validateValue(crule, craw, CoerceKey)
    /\ cpc' = "coerced"
    /\ UNCHANGED <<crule, craw, cagain>>
    /\ UNCHANGED driverVars

\* validateValue(rule, r, key) on the result r of the first call
CoerceAgain ==
    /\ cpc = "coerced"
    /\ cout.ok
    /\ cagain' = validateValue(crule, cout.v, CoerceKey)
    /\ cpc' = "again"
    /\ UNCHANGED <<crule, craw, cout>>
    /\ UNCHANGED driverVars

CoerceNext == Coerce \/ CoerceAgain

SpecCoerce == CoerceInit /\ [][CoerceNext]_vars

-----------------------------------------------------------------------------
(* Env.create and get: the claims *)

\* the names the schema declares
DeclaredKeys == {schema[i][1] : i \in 1..Len(schema)}

\* process.env holds nothing, or the empty string, for the name
MissingRaw(key) == env[key] \in {Undefined, Str("")}

NoDefault(rule) == "defaultValue" \notin DOMAIN rule

Optional(rule) == "required" \in DOMAIN rule /\ rule.required = FALSE

MissingRequired(key) == Throw("is required but not defined", key)

\* what one entry of the schema asks for against process.env: an error, no entry
\* of the map, or the coerced value of the raw string or of the default
Expected(entry) ==
    IF MissingRaw(entry[1]) /\ NoDefault(entry[2])
    THEN IF Optional(entry[2]) THEN [ok |-> TRUE, absent |-> TRUE]
         ELSE MissingRequired(entry[1])
    ELSE validateValue(entry[2],
                       IF MissingRaw(entry[1]) THEN entry[2].defaultValue ELSE env[entry[1]],
                       entry[1])

\* the construction is over and process.env is still what it read
Constructed == pc \in {"ready", "failed"} /\ changes = 0

\* a missing required entry without default, none of the entries before it in
\* the order `entries` failing, makes the construction fail with MissingRequired
MissingRequiredIn(entries) ==
    \A i \in 1..Len(entries) :
        ( /\ MissingRaw(entries[i][1])
          /\ NoDefault(entries[i][2])
          /\ ~Optional(entries[i][2])
          /\ \A j \in 1..(i - 1) : Expected(entries[j]).ok )
        => pc = "failed" /\ error = MissingRequired(entries[i][1])

\* C1 as stated: an entry with required not false, no default and a missing raw
\* value makes Env.create fail with the MissingRequired error for its key, when no
\* entry declared before it has failed
C1_DeclarationOrder == Constructed => MissingRequiredIn(schema)

\* C1, amended: an entry with required not false, no default and a missing raw
\* value makes Env.create fail with the MissingRequired error for its key, when no
\* entry before it in the order of Object.entries(schema) (integer-like keys
\* ascending, then the other keys as declared) has failed
C1_MissingRequired == Constructed => MissingRequiredIn(ObjectEntries(schema))

\* the second entry of the iteration is missing and required, the first was stored
C1_Witness ==
    /\ pc = "failed"
    /\ error.msg = "is required but not defined"
    /\ Len(visited) = 2
    /\ env[visited[2]] = Str("")
    /\ visited[1] \in DOMAIN values

\* C2: after a successful Env.create the map has no entry for a key exactly when
\* its rule has required false and no default and the raw value is missing, and
\* get(key) then returns undefined
C2_OptionalAbsent ==
    (pc = "ready" /\ changes = 0) =>
        /\ \A i \in 1..Len(schema) :
               (schema[i][1] \notin DOMAIN values)
                   <=> ( /\ Optional(schema[i][2])
                         /\ NoDefault(schema[i][2])
                         /\ MissingRaw(schema[i][1]) )
        /\ \A i \in 1..Len(schema) :
               ( /\ lastGet # None
                 /\ lastGet.key = schema[i][1]
                 /\ Optional(schema[i][2])
                 /\ NoDefault(schema[i][2])
                 /\ MissingRaw(schema[i][1]) )
               => lastGet.v = Undefined

\* get of an optional, missing key of a map that holds the schema's other key
C2_Witness ==
    /\ pc = "ready"
    /\ changes = 0
    /\ lastGet # None
    /\ lastGet.key \in DeclaredKeys
    /\ lastGet.key \notin DOMAIN values
    /\ lastGet.v = Undefined
    /\ DOMAIN values # {}

\* C3: a missing raw value with a default stores validateValue(rule, default),
\* not the default as written (the duration default "1.5h" is stored as 5400000),
\* and a default the rule rejects makes Env.create fail, required false or not
C3_DefaultCoerced ==
    Constructed =>
        \A i \in 1..Len(schema) :
            (MissingRaw(schema[i][1]) /\ ~NoDefault(schema[i][2])) =>
                /\ pc = "ready" =>
                       /\ schema[i][1] \in DOMAIN values
                       /\ Expected(schema[i]).ok
                       /\ values[schema[i][1]] = Expected(schema[i]).v
                       /\ schema[i][2].defaultValue = Str("1.5h")
                              => values[schema[i][1]] = Num(5400000)
                       /\ schema[i][2].defaultValue # Str("x")
                /\ (pc = "failed" /\ error.path = schema[i][1]) =>
                       /\ error = Expected(schema[i])
                       /\ schema[i][2].defaultValue = Str("x")

\* the default "1.5h" of a missing duration entry is in the map as 5400000
C3_Witness ==
    /\ pc = "ready"
    /\ changes = 0
    /\ \E i \in 1..Len(schema) :
           /\ MissingRaw(schema[i][1])
           /\ schema[i][2].type = "duration"
           /\ values[schema[i][1]] = Num(5400000)

\* the entries are read in the order `entries`; the first that fails ends the
\* construction with its error, nothing after it is read or stored, and no
\* instance exists; with no failing entry all are read and the instance exists
FailFastIn(entries) ==
    /\ Len(visited) <= Len(entries)
    /\ \A i \in 1..Len(visited) : visited[i] = entries[i][1]
    /\ \A i \in 1..Len(visited) : i < Len(visited) => Expected(entries[i]).ok
    /\ pc = "failed" =>
           /\ Len(visited) > 0
           /\ error = Expected(entries[Len(visited)])
           /\ ~error.ok
           /\ DOMAIN values \subseteq {visited[i] : i \in 1..(Len(visited) - 1)}
           /\ built = None
           /\ lastGet = None
    /\ pc = "ready" =>
           /\ Len(visited) = Len(entries)
           /\ \A i \in 1..Len(entries) : Expected(entries[i]).ok
           /\ built = values

\* C4 as stated: the entries are processed in the order the schema declares them
\* and the first failure ends the construction
C4_DeclarationOrder == changes = 0 => FailFastIn(schema)

\* C4, amended: the entries are processed in the order of Object.entries(schema)
\* (integer-like keys ascending, then the other keys as declared); the error of
\* Env.create is that of the first entry in this order that fails, nothing after
\* it is read or stored, and no instance is returned
C4_FailFast == changes = 0 => FailFastIn(ObjectEntries(schema))

\* the first entry was stored, the second failed, and there is no instance
C4_Witness ==
    /\ pc = "failed"
    /\ Len(schema) = 2
    /\ Len(visited) = 2
    /\ DOMAIN values = {visited[1]}
    /\ error.path = visited[2] \o "[0]"
    /\ built = None

\* C6: a variable process.env holds and the schema does not declare is never
\* read, never stored and never the cause of a failure, and get of it returns
\* undefined
C6_UndeclaredIgnored ==
    /\ \A i \in 1..Len(visited) : visited[i] \in DeclaredKeys
    /\ DOMAIN values \subseteq DeclaredKeys
    /\ pc = "failed" => \E key \in DeclaredKeys : StartsWith(error.path, key)
    /\ (lastGet # None /\ lastGet.key \notin DeclaredKeys) => lastGet.v = Undefined

\* get of a name process.env holds and a non-empty schema does not declare
C6_Witness ==
    /\ pc = "ready"
    /\ lastGet # None
    /\ lastGet.key \notin DeclaredKeys
    /\ env[lastGet.key] = Str("7")
    /\ lastGet.v = Undefined
    /\ DOMAIN values # {}

\* C7: the map of a constructed instance never changes, whatever process.env
\* becomes, and get returns what the construction stored
C7_Immutable ==
    pc = "ready" =>
        /\ built # None
        /\ values = built
        /\ lastGet # None =>
               lastGet.v = (IF lastGet.key \in DOMAIN built THEN built[lastGet.key]
                            ELSE Undefined)

\* get after process.env changed under the key returns the stored "7"
C7_Witness ==
    /\ pc = "ready"
    /\ lastGet # None
    /\ lastGet.at > 0
    /\ lastGet.v = Str("7")
    /\ env[lastGet.key] = Str("7.5")

-----------------------------------------------------------------------------
(* validateValue: the claims *)

\* the raw items of an array or list rule, before the item rule sees them
RawItems == IF crule.type = "array" THEN rawArray(craw, CoerceKey)
            ELSE rawList(crule, craw, CoerceKey)

\* what the item rule does with item i (index i - 1) of items
ItemResult(items, i) ==
    validateValue(crule.itemType, items[i], ItemPath(CoerceKey, i - 1))

\* the positions of the items the item rule rejects
FailingItems(items) == {i \in 1..Len(items) : ~ItemResult(items, i).ok}

Least(S) == CHOOSE i \in S : \A j \in S : i <= j

\* the result of an array or list rule over items: the error of the failing
\* item of lowest index, with that item's path
LowestFailure(items) ==
    IF FailingItems(items) = {}
    THEN \/ /\ cout.ok
            /\ Len(cout.v.a) = Len(items)
            /\ \A i \in 1..Len(items) : cout.v.a[i] = ItemResult(items, i).v
         \/ cout = Throw("expected list items to be unique", CoerceKey)
    ELSE /\ cout = ItemResult(items, Least(FailingItems(items)))
         /\ StartsWith(cout.path,
                       CoerceKey \o "[" \o ToString(Least(FailingItems(items)) - 1) \o "]")

\* C5: an item of an array or list rule under key K that fails at index i fails
\* with the path K[i], inside a nested array or list at index j with K[i][j], and
\* the error is that of the lowest failing index, the items before it coerced
C5_ItemPaths ==
    (cpc # "input" /\ crule.type \in {"array", "list"}) =>
        /\ RawItems.ok => LowestFailure(RawItems.v.a)
        /\ (craw = Str("[7,\"a\"]") /\ crule.type = "array" /\ crule.itemType.type = "int")
               => cout = Throw("expected number but got", "K[1]")
        /\ (craw = Str("[7,\"a\"]") /\ crule.type = "array" /\ crule.itemType.type = "string")
               => cout = Throw("expected string but got number", "K[0]")
        /\ (craw = Str("a,a") /\ crule.type = "list" /\ crule.itemType.type = "int")
               => cout = Throw("expected number but got", "K[0]")
        /\ (craw = Str("[[7],[7,\"a\"]]") /\ crule.type = "array"
               /\ crule.itemType.type = "array")
               => cout = Throw("expected number but got", "K[1][1]")
        /\ (craw = Str("7,7|7,a") /\ crule.type = "list" /\ crule.itemType.type = "list")
               => cout = Throw("expected number but got", "K[1][1]")

\* the second item of the second nested array fails: K[1][1]
C5_Witness ==
    /\ cpc = "coerced"
    /\ crule.type = "array"
    /\ crule.itemType.type = "array"
    /\ ~cout.ok
    /\ cout.path = "K[1][1]"
    /\ cout.msg = "expected number but got"

RECURSIVE Nests(_, _)
\* the rule, or the item rule of the rule at some depth, is of one of the kinds
Nests(rule, kinds) ==
    \/ rule.type \in kinds
    \/ "itemType" \in DOMAIN rule /\ Nests(rule.itemType, kinds)

AsNumber == validateValue([crule EXCEPT !.type = "number"], craw, CoerceKey)

\* C9: number, int and float rules convert a raw number or numeric string to its
\* numeric value, and an int rule accepts it only when the value is an integer:
\* "7" gives 7, "7.5" fails with 'expected integer' for int and gives 7.5 for
\* number and float
C9_IntegerOnly ==
    (cpc # "input" /\ crule.type \in NumberKinds) =>
        /\ crule.type = "int" =>
               /\ cout.ok <=> (AsNumber.ok /\ IsInteger(AsNumber.v))
               /\ (AsNumber.ok /\ ~IsInteger(AsNumber.v)) =>
                      cout = Throw("expected integer but got", CoerceKey)
        /\ crule.type = "float" => cout = AsNumber
        /\ (cout.ok /\ TypeOf(craw) = "number") => cout.v = craw
        /\ (cout.ok /\ TypeOf(craw) = "string" /\ AllDigits(craw.s)) =>
               cout.v = Num(DigitsVal(craw.s))
        /\ (craw = Str("7") /\ DOMAIN crule = {"type"}) => cout = Ok(Num(7))
        /\ (craw = Str("7.5") /\ crule.type = "int") =>
               cout = Throw("expected integer but got", CoerceKey)
        /\ (craw = Str("7.5") /\ crule.type # "int" /\ DOMAIN crule = {"type"}) =>
               cout = Ok(Norm(75, 1))

\* "7.5" under an int rule
C9_Witness ==
    /\ cpc = "coerced"
    /\ crule = [type |-> "int"]
    /\ craw = Str("7.5")
    /\ cout = Throw("expected integer but got", CoerceKey)

\* every character of s is a space
Blank(s) == \A i \in 1..Len(s) : Char(s, i) = " "

\* s holds a digit, no letter, and no space between two other characters
NumberShaped(s) ==
    /\ \E i \in 1..Len(s) : IsDigit(Char(s, i))
    /\ \A i \in 1..Len(s) : IsDigit(Char(s, i)) \/ Char(s, i) \in {".", "-", " "}
    /\ \A i \in 2..(Len(s) - 1) :
           Char(s, i) = " " => (Blank(SubSeq(s, 1, i)) \/ Blank(SubSeq(s, i, Len(s))))

\* C10: number, int and float rules reject a raw string that is empty or only
\* whitespace with 'expected number', never reading it as 0, and reject every
\* string that does not parse as a number: no string is stored as NaN
C10_NoBlankNoNaN ==
    (cpc # "input" /\ crule.type \in NumberKinds /\ TypeOf(craw) = "string") =>
        /\ Blank(craw.s) => cout = Throw("expected number but got", CoerceKey)
        /\ ~NumberShaped(craw.s) => cout = Throw("expected number but got", CoerceKey)
        /\ cout.ok => (TypeOf(cout.v) = "number" /\ ~IsNaN(cout.v))

\* a string of spaces under a number rule
C10_Witness ==
    /\ cpc = "coerced"
    /\ crule = [type |-> "number"]
    /\ craw = Str("  ")
    /\ cout = Throw("expected number but got", CoerceKey)

\* the raw string as the boolean rule reads it
BooleanToken == Trim(ToLowerCase(craw.s))

\* C11: a boolean rule lower-cases and trims a raw string and returns true
\* exactly for true, 1, yes, y, on, enabled and false exactly for false, 0, no,
\* n, off, disabled; every other string fails with 'expected boolean', so that
\* a successful boolean coercion always returns the boolean true or false
C11_BooleanTokens ==
    (cpc # "input" /\ crule.type = "boolean") =>
        /\ cout.ok => cout.v \in {Bool(TRUE), Bool(FALSE)}
        /\ TypeOf(craw) = "string" =>
               cout = (IF BooleanToken \in {"true", "1", "yes", "y", "on", "enabled"}
                       THEN Ok(Bool(TRUE))
                       ELSE IF BooleanToken \in {"false", "0", "no", "n", "off", "disabled"}
                       THEN Ok(Bool(FALSE))
                       ELSE Throw("expected boolean but got string", CoerceKey))

\* a raw string that names a property booleanMap inherits is accepted, and the
\* result is no boolean
C11_Witness ==
    /\ cpc = "coerced"
    /\ crule = [type |-> "boolean"]
    /\ craw = Str("constructor")
    /\ cout = Ok(ObjectConstructor)

\* C12: an enum rule returns the raw value unchanged when it is a member of the
\* choices of the rule and fails with 'expected one of' otherwise, so that every
\* value an enum rule returns is an element of choices
C12_EnumMember ==
    (cpc # "input" /\ crule.type = "enum") =>
        /\ (\E i \in 1..Len(crule.choices) : crule.choices[i] = craw)
               => cout = Ok(craw)
        /\ ~(\E i \in 1..Len(crule.choices) : crule.choices[i] = craw)
               => cout = Throw("expected one of", CoerceKey)
        /\ cout.ok => \E i \in 1..Len(crule.choices) : crule.choices[i] = cout.v

\* the string "7" is no member of choices that hold the number 7
C12_Witness ==
    /\ cpc = "coerced"
    /\ crule.type = "enum"
    /\ crule.choices[1] = Num(7)
    /\ craw = Str("7")
    /\ cout = Throw("expected one of", CoerceKey)

\* C13: a json rule parses a raw string with the parser of the rule when it has
\* one and with JSON.parse otherwise and returns the parsed value; a raw value
\* that is no string is returned unchanged; when the parser throws, the error
\* is 'expected valid JSON: ' followed by the message of what it threw
C13_JsonParser ==
    (cpc # "input" /\ crule.type = "json") =>
        /\ TypeOf(craw) # "string" => cout = Ok(craw)
        /\ (TypeOf(craw) = "string" /\ "parser" \notin DOMAIN crule) =>
               /\ JSONParse(craw.s).ok => cout = Ok(JSONParse(craw.s).v)
               /\ ~JSONParse(craw.s).ok =>
                      cout = Throw("expected valid JSON: " \o SyntaxErrorMessage, CoerceKey)
               /\ craw = Str("[7,\"a\"]") => cout = Ok(Arr(<<Num(7), Str("a")>>))
               /\ craw = Str("\"7\"") => cout = Ok(Str("7"))
               /\ craw = Str("maybe") => ~cout.ok
               /\ craw = Str("") => ~cout.ok
        /\ (TypeOf(craw) = "string" /\ "parser" \in DOMAIN crule) =>
               /\ crule.parser = "wrapNumber" => cout = Ok(Arr(<<ToNumber(craw.s)>>))
               /\ (crule.parser = "sevenOnly" /\ StartsWith(craw.s, "7"))
                      => cout = Ok(Num(Len(craw.s)))
               /\ (crule.parser = "sevenOnly" /\ ~StartsWith(craw.s, "7"))
                      => cout = Throw("expected valid JSON: no seven", CoerceKey)
               /\ crule.parser = "throwString"
                      => cout = Throw("expected valid JSON: undefined", CoerceKey)

\* the parser of the rule reads a string JSON.parse rejects
C13_Witness ==
    /\ cpc = "coerced"
    /\ crule = [type |-> "json", parser |-> "sevenOnly"]
    /\ craw = Str("7 a")
    /\ cout = Ok(Num(3))

\* the JSON text of a raw string under an array rule, and what JSON.parse makes of it
ArrayText == Trim(craw.s)

\* element i of the parsed array under the item rule of the array rule
ElementResult(parsed, i) ==
    validateValue(crule.itemType, parsed[i], ItemPath(CoerceKey, i - 1))

\* C14: an array rule returns the empty array for a raw string that is blank
\* after trimming; any other raw string must start with '[' and parse as a JSON
\* array, or coercion fails; a result has one element for each parsed element,
\* in the same order, element i being parsed element i coerced by the item rule
C14_ArrayElements ==
    (cpc # "input" /\ crule.type = "array" /\ TypeOf(craw) = "string") =>
        /\ Blank(craw.s) => cout = Ok(Arr(<<>>))
        /\ (~Blank(craw.s) /\ ~StartsWith(ArrayText, "["))
               => cout = Throw("expected JSON array (e.g. '[1,2,3]')", CoerceKey)
        /\ (StartsWith(ArrayText, "[") /\ ~JSONParse(ArrayText).ok)
               => cout = Throw("expected valid JSON array", CoerceKey)
        /\ (StartsWith(ArrayText, "[") /\ JSONParse(ArrayText).ok) =>
               /\ JSONParse(ArrayText).v.t = "array"
               /\ cout.ok <=> \A i \in 1..Len(JSONParse(ArrayText).v.a) :
                                  ElementResult(JSONParse(ArrayText).v.a, i).ok
               /\ cout.ok =>
                      /\ Len(cout.v.a) = Len(JSONParse(ArrayText).v.a)
                      /\ \A i \in 1..Len(cout.v.a) :
                             cout.v.a[i] = ElementResult(JSONParse(ArrayText).v.a, i).v
        /\ (craw = Str("[\"7\",7]") /\ crule.itemType.type = "int")
               => cout = Ok(Arr(<<Num(7), Num(7)>>))
        /\ (craw = Str(" [ 7 , 5 ] ") /\ crule.itemType.type = "int")
               => cout = Ok(Arr(<<Num(7), Num(5)>>))
        /\ (craw = Str("[[7],[7.5]]") /\ crule.itemType.type = "json")
               => cout = Ok(Arr(<<Arr(<<Num(7)>>), Arr(<<Norm(75, 1)>>)>>))
        /\ craw = Str("7,7") => ~cout.ok

\* a string of spaces under an array rule
C14_Witness ==
    /\ cpc = "coerced"
    /\ crule = [type |-> "array", itemType |-> [type |-> "int"]]
    /\ craw = Str("  ")
    /\ cout = Ok(Arr(<<>>))

\* the separator of a list rule, and whether it trims
ListSeparator == IF Has(crule, "separator") THEN crule.separator ELSE ","

ListTrims == ~(Has(crule, "trim") /\ crule.trim = FALSE)

\* the segments of a raw string under a list rule: split on the separator,
\* each one trimmed unless trim is false
ListSegments ==
    LET parts == Split(craw.s, ListSeparator)
    IN  [i \in 1..Len(parts) |-> IF ListTrims THEN Trim(parts[i]) ELSE parts[i]]

\* segment i under the item rule of the list rule
SegmentResult(i) ==
    validateValue(crule.itemType, Str(ListSegments[i]), ItemPath(CoerceKey, i - 1))

FailingSegments == {i \in 1..Len(ListSegments) : ~SegmentResult(i).ok}

\* a list rule splits on the separator (',' by default), trims unless trim is
\* false, and returns one item for each segment, in order, each the segment
\* coerced by the item rule
SplitAndCoerce ==
    /\ cout.ok => /\ Len(cout.v.a) = Len(ListSegments)
                  /\ \A i \in 1..Len(ListSegments) : cout.v.a[i] = SegmentResult(i).v
    /\ (FailingSegments = {} /\ ~Flag(crule, "unique")) => cout.ok
    /\ FailingSegments # {} => cout = SegmentResult(Least(FailingSegments))
    /\ (craw = Str(" a , 7 ") /\ crule = [type |-> "list", itemType |-> [type |-> "string"]])
           => cout = Ok(Arr(<<Str("a"), Str("7")>>))
    /\ (craw = Str("7, 7.5") /\ crule = [type |-> "list", itemType |-> [type |-> "int"]])
           => cout = Throw("expected integer but got", "K[1]")
    /\ (craw = Str("7,7") /\ crule = [type |-> "list", itemType |-> [type |-> "int"]])
           => cout = Ok(Arr(<<Num(7), Num(7)>>))
    /\ (craw = Str("a|a") /\ Has(crule, "separator") /\ crule.separator = "|"
           /\ crule.itemType.type = "string")
           => cout = Ok(Arr(<<Str("a"), Str("a")>>))
    /\ (craw = Str(" a , 7 ") /\ Has(crule, "separator") /\ crule.separator = "|")
           => ListSegments = <<IF ListTrims THEN "a , 7" ELSE " a , 7 ">>
    /\ (craw = Str(" a , 7 ") /\ Has(crule, "trim") /\ crule.itemType.type = "string")
           => cout = Ok(Arr(<<Str(" a , 7 ")>>))
    /\ (craw = Str(" YES ,Off") /\ crule.itemType.type = "boolean")
           => cout = Ok(Arr(<<Bool(TRUE), Bool(FALSE)>>))

\* C15 as stated: a list rule splits a raw string on the separator (',' when none
\* is configured), trims each segment unless trim is false and returns one item
\* for each segment, in order, coerced by the item rule; a blank raw string yields
\* one empty-string segment
C15_BlankOneEmptySegment ==
    (cpc # "input" /\ crule.type = "list" /\ TypeOf(craw) = "string") =>
        /\ SplitAndCoerce
        /\ Blank(craw.s) => ListSegments = <<"">>

\* C15 amended: as above, but a blank raw string yields one more segment than it
\* holds separators, each of them blank and never none: one segment when the
\* separator does not occur in it, the empty string when the rule trims and the
\* raw string itself when it does not
C15_BlankSegments ==
    (cpc # "input" /\ crule.type = "list" /\ TypeOf(craw) = "string") =>
        /\ SplitAndCoerce
        /\ Blank(craw.s) =>
               /\ Len(ListSegments) >= 1
               /\ \A i \in 1..Len(ListSegments) : Blank(ListSegments[i])
               /\ cout.ok => Len(cout.v.a) >= 1
               /\ FindStr(craw.s, ListSeparator) = 0
                      => ListSegments = <<IF ListTrims THEN "" ELSE craw.s>>
               /\ crule = [type |-> "list", itemType |-> [type |-> "string"]]
                      => cout = Ok(Arr(<<Str("")>>))

\* two spaces under a list rule that separates on the space: three segments
C15_Witness ==
    /\ cpc = "coerced"
    /\ crule = [type |-> "list", itemType |-> [type |-> "string"], separator |-> " "]
    /\ craw = Str("  ")
    /\ cout = Ok(Arr(<<Str(""), Str(""), Str("")>>))

\* two of the coerced items of a list are equal
EqualItems(list) == \E i, j \in 1..Len(list) : i < j /\ list[i] = list[j]

\* the coerced items of a list rule whose items all pass the item rule
CoercedItems == [i \in 1..Len(RawItems.v.a) |-> ItemResult(RawItems.v.a, i).v]

\* C16: a list rule with unique set fails with 'expected list items to be
\* unique' if and only if two of its items are equal after coercion; without
\* unique, duplicates are accepted
C16_UniqueByValue ==
    (cpc # "input" /\ crule.type = "list" /\ RawItems.ok
         /\ FailingItems(RawItems.v.a) = {}) =>
        /\ Flag(crule, "unique") =>
               (cout = Throw("expected list items to be unique", CoerceKey)
                    <=> EqualItems(CoercedItems))
        /\ ~Flag(crule, "unique") => cout = Ok(Arr(CoercedItems))
        /\ (craw = Str("a,a") /\ Flag(crule, "unique") /\ crule.itemType.type = "string")
               => cout = Throw("expected list items to be unique", CoerceKey)
        /\ (craw = Str("7, 7.0") /\ Flag(crule, "unique") /\ crule.itemType.type = "int")
               => cout = Throw("expected list items to be unique", CoerceKey)

\* the same, for lists whose coerced items are strings, numbers and booleans
C16_UniquePrimitives ==
    (cpc # "input" /\ crule.type = "list" /\ RawItems.ok
         /\ FailingItems(RawItems.v.a) = {}
         /\ \A i \in 1..Len(CoercedItems) : ~IsArray(CoercedItems[i])) =>
        /\ Flag(crule, "unique") =>
               (cout = Throw("expected list items to be unique", CoerceKey)
                    <=> EqualItems(CoercedItems))
        /\ ~Flag(crule, "unique") => cout = Ok(Arr(CoercedItems))

\* two segments that coerce to the same list of integers pass a unique list rule
C16_Witness ==
    /\ cpc = "coerced"
    /\ crule = [type |-> "list",
                itemType |-> [type |-> "list", itemType |-> [type |-> "int"]],
                separator |-> "|", unique |-> TRUE]
    /\ craw = Str("7|7")
    /\ cout = Ok(Arr(<<Arr(<<Num(7)>>), Arr(<<Num(7)>>)>>))

\* a raw string under a duration rule, trimmed and in lower case
DurationText == ToLowerCase(Trim(craw.s))

\* the units of a duration and their milliseconds
DurationUnits == {"ms", "s", "m", "h"}

UnitMs(unit) == IF unit = "h" THEN 3600000
                ELSE IF unit = "m" THEN 60000
                ELSE IF unit = "s" THEN 1000
                ELSE 1

\* the ways to read s as a decimal number immediately followed by an optional unit
DurationReadings(s) ==
    {r \in [value : {SubSeq(s, 1, n) : n \in 0..Len(s)}, unit : DurationUnits \cup {""}] :
        /\ r.value \o r.unit = s
        /\ IsUnitNumber(r.value)}

\* the rule puts no bound on the milliseconds
Unbounded == ~Has(crule, "minMs") /\ ~Has(crule, "maxMs")

\* C17: a duration rule accepts a raw string only when, trimmed and in lower case,
\* it is a decimal number immediately followed by an optional unit among ms, s, m
\* and h, and returns the number times 1, 1000, 60000 or 3600000 (times 1 without
\* a unit); any other suffix fails with the 'expected duration format' error; a
\* raw number is taken as milliseconds
C17_DurationUnits ==
    (cpc # "input" /\ crule.type = "duration") =>
        /\ TypeOf(craw) = "string" =>
               /\ cout.ok => DurationReadings(DurationText) # {}
               /\ \A r \in DurationReadings(DurationText) :
                      /\ Unbounded => cout = Ok(NumMul(ToNumber(r.value), UnitMs(r.unit)))
                      /\ cout.ok => cout.v = NumMul(ToNumber(r.value), UnitMs(r.unit))
               /\ (DurationReadings(DurationText) = {} /\ DurationText # "")
                      => cout = Throw("expected duration format like", CoerceKey)
        /\ (TypeOf(craw) = "number" /\ Unbounded /\ ~IsNaN(craw)) => cout = Ok(craw)
        /\ (craw = Str("1.5h") /\ Unbounded) => cout = Ok(Num(5400000))
        /\ (craw = Str(" 1.5H ") /\ Unbounded) => cout = Ok(Num(5400000))
        /\ (craw = Str("500") /\ Unbounded) => cout = Ok(Num(500))
        /\ (craw = Str("500ms") /\ Unbounded) => cout = Ok(Num(500))
        /\ (craw = Str("30S") /\ Unbounded) => cout = Ok(Num(30000))
        /\ (craw = Str("5m") /\ Unbounded) => cout = Ok(Num(300000))
        /\ (craw = Str(".5s") /\ Unbounded) => cout = Ok(Num(500))
        /\ craw \in {Str("10d"), Str("7 s"), Str("5 ms"), Str("5.s"), Str("5sm")}
               => cout = Throw("expected duration format like", CoerceKey)

\* an hour and a half, in upper case and between spaces
C17_Witness ==
    /\ cpc = "coerced"
    /\ crule = [type |-> "duration"]
    /\ craw = Str(" 1.5H ")
    /\ cout = Ok(Num(5400000))

\* a raw string under a bytes rule, trimmed and in lower case
BytesText == ToLowerCase(Trim(craw.s))

\* the units of a byte size as powers: base and exponent
UnitPower(unit) ==
    CASE unit \in {"", "b"} -> <<1000, 0>>
      [] unit = "kb"  -> <<1000, 1>>
      [] unit = "mb"  -> <<1000, 2>>
      [] unit = "gb"  -> <<1000, 3>>
      [] unit = "tb"  -> <<1000, 4>>
      [] unit = "kib" -> <<1024, 1>>
      [] unit = "mib" -> <<1024, 2>>
      [] unit = "gib" -> <<1024, 3>>
      [] unit = "tib" -> <<1024, 4>>

\* the ways to read s as a number, optional whitespace and an optional unit
ByteReadings(s) ==
    {r \in [value : {SubSeq(s, 1, n) : n \in 0..Len(s)},
            unit  : {"", "b", "kb", "mb", "gb", "tb", "kib", "mib", "gib", "tib"}] :
        /\ IsUnitNumber(r.value)
        /\ Len(r.value) + Len(r.unit) <= Len(s)
        /\ SubSeq(s, Len(s) - Len(r.unit) + 1, Len(s)) = r.unit
        /\ Blank(SubSeq(s, Len(r.value) + 1, Len(s) - Len(r.unit)))}

\* the number of bytes of a reading: its value times the power of its unit
ReadingBytes(r) ==
    NumMulAll(ToNumber(r.value).k, ToNumber(r.value).d,
              [i \in 1..UnitPower(r.unit)[2] |-> UnitPower(r.unit)[1]])

\* n is a byte count the rule at hand lets through
WithinBytes(n) ==
    /\ IsInteger(n)
    /\ ~NumLt(n, Num(0))
    /\ Has(crule, "min") => ~NumLt(n, crule.min)
    /\ Has(crule, "max") => ~NumLt(crule.max, n)

\* the outcome of a bytes rule on a raw string, by the readings of the string
BytesByUnit ==
    /\ \A r \in ByteReadings(BytesText) : WithinBytes(ReadingBytes(r))
                                              => cout = Ok(ReadingBytes(r))
    /\ (ByteReadings(BytesText) = {} /\ BytesText # "")
           => cout = Throw("expected byte size format like", CoerceKey)
    /\ cout.ok => \E r \in ByteReadings(BytesText) : cout.v = ReadingBytes(r)

\* C18: a bytes rule converts a number with an optional unit (in any letter case,
\* whitespace allowed before the unit, bytes without a unit) by powers of 1000 for
\* b, kb, mb, gb and tb and by powers of 1024 for kib, mib, gib and tib; a string
\* with any other suffix fails with the 'expected byte size format' error
C18_BytesUnits ==
    (cpc # "input" /\ crule.type = "bytes" /\ TypeOf(craw) = "string") =>
        /\ BytesByUnit
        /\ (craw = Str("64MB") /\ crule = [type |-> "bytes"]) => cout = Ok(Num(64000000))
        /\ (craw = Str("1.5GiB") /\ crule = [type |-> "bytes"]) => cout = Ok(Num(1610612736))

\* the strings whose product binary64 arithmetic rounds
RoundedText == BytesText \in {"2.01kb", "1.001kb"}

\* the same for the strings whose product binary64 arithmetic gives exactly
C18_BytesUnitsExact ==
    (cpc # "input" /\ crule.type = "bytes" /\ TypeOf(craw) = "string" /\ ~RoundedText) =>
        /\ BytesByUnit
        /\ (craw = Str("64MB") /\ crule = [type |-> "bytes"]) => cout = Ok(Num(64000000))
        /\ (craw = Str("1.5GiB") /\ crule = [type |-> "bytes"]) => cout = Ok(Num(1610612736))
        /\ (craw = Str(" 2 KiB ") /\ crule = [type |-> "bytes"]) => cout = Ok(Num(2048))
        /\ (craw = Str("0.001TB") /\ crule = [type |-> "bytes"]) => cout = Ok(Num(1000000000))
        /\ (craw = Str("0.0009765625TiB") /\ crule = [type |-> "bytes"])
               => cout = Ok(Num(1073741824))
        /\ craw \in {Str("10d"), Str("1KBs"), Str("64 M B"), Str("64m")}
               => cout = Throw("expected byte size format like", CoerceKey)

\* 2.01 kilobytes, 2010 bytes, are turned down as no whole number
C18_Witness ==
    /\ cpc = "coerced"
    /\ crule = [type |-> "bytes"]
    /\ craw = Str("2.01KB")
    /\ cout = Throw("expected byte size to resolve to a whole number but got", CoerceKey)

\* what the raw value at hand resolves to under a bytes rule: a raw number
\* itself, the bytes of a raw string that reads as a byte size
ResolvedBytes ==
    IF TypeOf(craw) = "number" THEN {craw} \ {NaN}
    ELSE IF TypeOf(craw) = "string"
    THEN {ReadingBytes(r) : r \in ByteReadings(BytesText)}
    ELSE {}

\* C19: every value a bytes rule returns is a finite, whole, non-negative number n
\* with min <= n <= max (min 0 and max unbounded by default); an input that
\* resolves to a fractional byte count fails with the 'whole number' error, a
\* negative one fails, and one below min or above max fails, for raw strings and
\* raw numbers alike
C19_WholeBytes ==
    (cpc # "input" /\ crule.type = "bytes") =>
        /\ cout.ok => /\ TypeOf(cout.v) = "number"
                      /\ ~IsNaN(cout.v)
                      /\ IsInteger(cout.v)
                      /\ ~NumLt(cout.v, Num(0))
                      /\ ~NumLt(cout.v, IF Has(crule, "min") THEN crule.min ELSE Num(0))
                      /\ Has(crule, "max") => ~NumLt(crule.max, cout.v)
        /\ \A n \in ResolvedBytes :
               /\ ~IsInteger(n)
                      => cout = Throw("expected byte size to resolve to a whole number but got",
                                      CoerceKey)
               /\ NumLt(n, Num(0)) => ~cout.ok
               /\ (IsInteger(n) /\ Has(crule, "min") /\ NumLt(n, crule.min)) => ~cout.ok
               /\ (IsInteger(n) /\ Has(crule, "max") /\ NumLt(crule.max, n)) => ~cout.ok
               /\ (IsInteger(n) /\ ~(TypeOf(craw) = "string" /\ RoundedText)) =>
                      cout = IF NumLt(n, Num(0))
                             THEN Throw("expected byte size to be non-negative", CoerceKey)
                             ELSE IF Has(crule, "min") /\ NumLt(n, crule.min)
                             THEN Throw("expected byte size to be >=", CoerceKey)
                             ELSE IF Has(crule, "max") /\ NumLt(crule.max, n)
                             THEN Throw("expected byte size to be <=", CoerceKey)
                             ELSE Ok(n)
        /\ craw = Str("0.1B")
               => cout = Throw("expected byte size to resolve to a whole number but got", CoerceKey)
        /\ craw \in {Str("-1KB"), Num(-7)}
               => cout = Throw("expected byte size to be non-negative", CoerceKey)
        /\ craw = Norm(75, 1)
               => cout = Throw("expected byte size to resolve to a whole number but got", CoerceKey)
        /\ craw = NaN => cout = Throw("expected finite byte size but got", CoerceKey)
        /\ (craw \in {Str("1 kb"), Num(7)} /\ crule = [type |-> "bytes", min |-> Num(1024)])
               => cout = Throw("expected byte size to be >=", CoerceKey)
        /\ (craw = Str("1GB") /\ Has(crule, "max"))
               => cout = Throw("expected byte size to be <=", CoerceKey)

\* a tenth of a byte
C19_Witness ==
    /\ cpc = "coerced"
    /\ crule = [type |-> "bytes"]
    /\ craw = Str("0.1B")
    /\ cout = Throw("expected byte size to resolve to a whole number but got", CoerceKey)

\* the trimmed path of a raw string under a path rule, and the pathType asked for
TrimmedPath == Trim(craw.s)

AskedType == IF Has(crule, "pathType") THEN crule.pathType ELSE "any"

\* exists(p) and the outcome of stat(p) on the filesystem of the model
Exists(p) == PathKind(p) # "none"

StatFails(p) == PathKind(p) = "unreadable"

\* C20: under a path rule, a path that does not exist fails when exists is set; an
\* existing path under a pathType of file or dir is stat-ed and accepted only when
\* stat succeeds and reports that type, a failing stat giving the 'expected path
\* to be readable' error; a path that does not exist is accepted whenever exists
\* is not set, with a pathType too; the value returned is the trimmed path
C20_PathChecks ==
    (cpc # "input" /\ crule.type = "path" /\ TypeOf(craw) = "string"
         /\ TrimmedPath # "") =>
        /\ (Flag(crule, "exists") /\ ~Exists(TrimmedPath))
               => cout = Throw("expected path to exist", CoerceKey)
        /\ (AskedType \in {"file", "dir"} /\ Exists(TrimmedPath)) =>
               /\ StatFails(TrimmedPath)
                      => cout = Throw("expected path to be readable", CoerceKey)
               /\ cout.ok <=> PathKind(TrimmedPath) = AskedType
               /\ (~StatFails(TrimmedPath) /\ PathKind(TrimmedPath) # AskedType)
                      => cout = Throw(IF AskedType = "file"
                                      THEN "expected path to be a file"
                                      ELSE "expected path to be a directory", CoerceKey)
        /\ (~Exists(TrimmedPath) /\ ~Flag(crule, "exists")) => cout = Ok(Str(TrimmedPath))
        /\ (AskedType = "any" /\ Exists(TrimmedPath)) => cout = Ok(Str(TrimmedPath))
        /\ cout.ok => cout.v = Str(TrimmedPath)
        /\ (craw = Str(" a.7 ") /\ AskedType = "any") => cout = Ok(Str("a.7"))
        /\ (craw = Str(" 7 ") /\ AskedType = "dir") => cout = Ok(Str("7"))
        /\ (craw = Str("7") /\ AskedType = "file")
               => cout = Throw("expected path to be a file", CoerceKey)

\* a path that does not exist, under a rule that asks for a file and not for
\* existence
C20_Witness ==
    /\ cpc = "coerced"
    /\ crule = [type |-> "path", pathType |-> "file"]
    /\ craw = Str(" 75")
    /\ cout = Ok(Str("75"))

\* the trimmed text of a raw string under a base64 rule, and the options of the rule
Base64Text == Trim(craw.s)

UrlSafe == Has(crule, "urlSafe") /\ crule.urlSafe = TRUE

Padding == IF Has(crule, "padding") THEN crule.padding ELSE "optional"

\* a character of the selected alphabet: A-Za-z0-9 with + and /, or with - and _
InAlphabet(c) ==
    \/ IsAlnum(c)
    \/ ~UrlSafe /\ c \in {"+", "/"}
    \/ UrlSafe /\ c \in {"-", "_"}

AllInAlphabet(s) == \A i \in 1..Len(s) : InAlphabet(Char(s, i))

\* a final partial group: XX== or XXX= where padding is not forbidden, XX or XXX
\* where it is not required
FinalGroup(g) ==
    \/ /\ Padding \in {"required", "optional"}
       /\ Len(g) = 4
       /\ \/ AllInAlphabet(SubSeq(g, 1, 2)) /\ SubSeq(g, 3, 4) = "=="
          \/ AllInAlphabet(SubSeq(g, 1, 3)) /\ SubSeq(g, 4, 4) = "="
    \/ /\ Padding \in {"forbidden", "optional"}
       /\ Len(g) \in {2, 3}
       /\ AllInAlphabet(g)

\* s is groups of four characters of the alphabet and at most one final group
GroupsOfFour(s) ==
    \E n \in 0..Len(s) :
        /\ n % 4 = 0
        /\ AllInAlphabet(SubSeq(s, 1, n))
        /\ n = Len(s) \/ FinalGroup(SubSeq(s, n + 1, Len(s)))

\* C21: a base64 rule accepts a non-empty trimmed string if and only if it is
\* groups of four characters of the selected alphabet with at most one final
\* group, padded with '=' (XX==, XXX=) under padding required, unpadded (XX, XXX)
\* under forbidden, either under optional, the default
C21_Base64Groups ==
    (cpc # "input" /\ crule.type = "base64" /\ TypeOf(craw) = "string"
         /\ Base64Text # "") =>
        /\ cout.ok <=> GroupsOfFour(Base64Text)
        /\ cout.ok => cout.v = Str(Base64Text)
        /\ ~cout.ok => cout = Throw(IF UrlSafe THEN "expected valid URL-safe base64 string"
                                    ELSE "expected valid base64 string", CoerceKey)
        /\ craw = Str("SGVsbG8gd29ybGQ") => (cout.ok <=> Padding # "required")
        /\ craw = Str("SGVsbG8gd29ybGQ=") => (cout.ok <=> Padding # "forbidden")
        /\ craw = Str("-w") => (cout.ok <=> UrlSafe /\ Padding # "required")
        /\ craw = Str("a7/+") => (cout.ok <=> ~UrlSafe)
        /\ craw \in {Str("a"), Str("a7="), Str("a7a7a"), Str("a7=a"), Str("=="), Str("a7a7=")}
               => ~cout.ok

\* an unpadded text under padding required
C21_Witness ==
    /\ cpc = "coerced"
    /\ crule = [type |-> "base64", padding |-> "required"]
    /\ craw = Str("SGVsbG8gd29ybGQ")
    /\ cout = Throw("expected valid base64 string", CoerceKey)

\* the character classes that occur in s
ClassesIn(s) ==
    {cls \in {"lower", "upper", "digit", "symbol"} :
        \E i \in 1..Len(s) : /\ cls = "lower" => IsLowerLetter(Char(s, i))
                             /\ cls = "upper" => IsUpperLetter(Char(s, i))
                             /\ cls = "digit" => IsDigit(Char(s, i))
                             /\ cls = "symbol" => ~IsAlnum(Char(s, i))}

\* the length of the raw string lies within the bounds the secret rule gives
SecretLengthFits ==
    /\ Has(crule, "minLength") => Len(craw.s) >= crule.minLength
    /\ Has(crule, "maxLength") => Len(craw.s) <= crule.maxLength

\* C22: a secret rule accepts a string if and only if its length lies within
\* [minLength, maxLength] and at least minClasses of the character classes
\* lowercase, uppercase, digit and symbol occur in it
C22_SecretClasses ==
    (cpc # "input" /\ crule.type = "secret" /\ TypeOf(craw) = "string") =>
        /\ cout.ok <=> /\ SecretLengthFits
                       /\ Has(crule, "minClasses")
                              => Cardinality(ClassesIn(craw.s)) >= crule.minClasses
        /\ cout.ok => cout.v = craw
        /\ (craw = Str("Str0ngSecret1!") /\ Has(crule, "minLength") /\ crule.minLength = 12)
               => cout = Ok(craw)
        /\ (craw = Str("weakpassword") /\ Has(crule, "minLength") /\ crule.minLength = 12)
               => cout = Throw("expected secret to contain at least 3 character classes",
                               CoerceKey)
        /\ (craw = Str("Str0ngSecret1!") /\ crule = [type |-> "secret", maxLength |-> 8])
               => cout = Throw("expected secret length to be <= 8", CoerceKey)
        /\ (craw = Str("Weakpassword") /\ Has(crule, "minLength") /\ crule.minLength = 12)
               => ~cout.ok

\* twelve lower-case letters under a rule that asks for three character classes
C22_Witness ==
    /\ cpc = "coerced"
    /\ crule = [type |-> "secret", minLength |-> 12, minClasses |-> 3]
    /\ craw = Str("weakpassword")
    /\ cout = Throw("expected secret to contain at least 3 character classes", CoerceKey)

\* the digest lengths of the hash algorithms, in hexadecimal characters
TableLength(name) ==
    CASE name = "MD5"    -> 32
      [] name = "SHA1"   -> 40
      [] name = "SHA256" -> 64
      [] name = "SHA384" -> 96
      [] name = "SHA512" -> 128

\* the name of the algorithm of the hash rule at hand
AlgorithmOf ==
    CHOOSE name \in {"MD5", "SHA1", "SHA256", "SHA384", "SHA512"} :
        HashAlgorithm[name] = crule.algorithm

\* s is made of hexadecimal digits, and of one at least
Hexadecimal(s) ==
    /\ s # ""
    /\ \A i \in 1..Len(s) :
           Char(s, i) \in {"0", "1", "2", "3", "4", "5", "6", "7", "8", "9", "a", "b", "c",
                           "d", "e", "f", "A", "B", "C", "D", "E", "F"}

\* C23: a hash rule accepts a string if and only if it is hexadecimal and its
\* length is exactly that of the rule's algorithm (MD5 32, SHA1 40, SHA256 64,
\* SHA384 96, SHA512 128); a string that is not hexadecimal fails with 'expected
\* hexadecimal string' whatever its length, a hexadecimal string of another
\* length with 'expected valid <ALGORITHM> string'
C23_HashLength ==
    (cpc # "input" /\ crule.type = "hash" /\ crule.algorithm \in 0..4
         /\ TypeOf(craw) = "string") =>
        /\ cout.ok <=> Hexadecimal(craw.s) /\ Len(craw.s) = TableLength(AlgorithmOf)
        /\ cout.ok => cout.v = craw
        /\ ~Hexadecimal(craw.s) => cout = Throw("expected hexadecimal string", CoerceKey)
        /\ (Hexadecimal(craw.s) /\ Len(craw.s) # TableLength(AlgorithmOf))
               => cout = Throw("expected valid " \o AlgorithmOf \o " string", CoerceKey)
        /\ (craw = Str("abc123") /\ crule.algorithm = 2)
               => cout = Throw("expected valid SHA256 string", CoerceKey)
        /\ (Len(craw.s) = 64 /\ StartsWith(craw.s, "g"))
               => cout = Throw("expected hexadecimal string", CoerceKey)
        /\ (Len(craw.s) = 128 /\ crule.algorithm = 4) => cout = Ok(craw)
        /\ (Len(craw.s) = 129 /\ crule.algorithm = 4)
               => cout = Throw("expected valid SHA512 string", CoerceKey)

\* a hexadecimal string one character longer than an MD5 digest
C23_Witness ==
    /\ cpc = "coerced"
    /\ crule = [type |-> "hash", algorithm |-> 0]
    /\ TypeOf(craw) = "string"
    /\ Len(craw.s) = 33
    /\ cout = Throw("expected valid MD5 string", CoerceKey)

\* the value a string rule looks at: the raw string, trimmed when trim is set
StringSeen == IF Flag(crule, "trim") THEN Trim(craw.s) ELSE craw.s

\* s matches the pattern of the rule at hand: /^\d+$/ or /7/
MatchesPattern(s) ==
    IF crule.pattern = "7" THEN \E i \in 1..Len(s) : Char(s, i) = "7"
    ELSE s # "" /\ \A i \in 1..Len(s) : IsDigit(Char(s, i))

\* C24: a string rule trims the raw value first when trim is set, then requires
\* the value to match the pattern when one is given and its length to lie within
\* minLength and maxLength, both inclusive and measured after trimming, and
\* returns the value; an input that is no string fails with 'expected string but
\* got <type>'
C24_StringChecks ==
    (cpc # "input" /\ crule.type = "string") =>
        /\ TypeOf(craw) = "string" =>
               /\ cout.ok <=> /\ Has(crule, "pattern") => MatchesPattern(StringSeen)
                              /\ Has(crule, "minLength") => crule.minLength <= Len(StringSeen)
                              /\ Has(crule, "maxLength") => Len(StringSeen) <= crule.maxLength
               /\ cout.ok => cout.v = Str(StringSeen)
               /\ (Has(crule, "pattern") /\ ~MatchesPattern(StringSeen))
                      => cout = Throw("expected pattern", CoerceKey)
        /\ TypeOf(craw) # "string"
               => cout = Throw("expected string but got " \o TypeOf(craw), CoerceKey)
        /\ craw = Num(7) => cout = Throw("expected string but got number", CoerceKey)
        /\ craw = Null => cout = Throw("expected string but got object", CoerceKey)
        /\ (craw = Str("  7") /\ Has(crule, "minLength") /\ Flag(crule, "trim"))
               => cout = Throw("expected string length to be a minimum of", CoerceKey)
        /\ (craw = Str("  7") /\ Has(crule, "minLength") /\ ~Flag(crule, "trim"))
               => cout = Ok(Str("  7"))
        /\ (craw = Str(" 75") /\ Has(crule, "maxLength") /\ crule.maxLength = 2)
               => cout = Ok(Str("75"))

\* a string that is long enough only before it is trimmed
C24_Witness ==
    /\ cpc = "coerced"
    /\ crule = [type |-> "string", trim |-> TRUE, minLength |-> 2, maxLength |-> 3]
    /\ craw = Str("  7")
    /\ cout = Throw("expected string length to be a minimum of", CoerceKey)

\* the raw value at hand is a number, or a string that is not blank
NumberOrText ==
    \/ TypeOf(craw) = "number"
    \/ TypeOf(craw) = "string" /\ Trim(craw.s) # ""

\* its value as a number
PortValue == IF TypeOf(craw) = "number" THEN craw ELSE ToNumber(Trim(craw.s))

\* n is an integer from 0 to 65535
IsPort(n) ==
    /\ ~IsNaN(n)
    /\ n.d = 0
    /\ 0 <= n.k
    /\ n.k <= 65535

\* C25: a port rule accepts a raw number or numeric string if and only if its
\* value is an integer n with 0 <= n <= 65535, and returns n as a number; a value
\* out of the range, a fractional value, a string that is not numeric or blank,
\* and an input that is neither string nor number fail with the 'expected valid
\* port (0-65535)' error
C25_PortRange ==
    (cpc # "input" /\ crule.type = "port") =>
        /\ cout = IF NumberOrText /\ IsPort(PortValue)
                  THEN Ok(PortValue)
                  ELSE Throw("expected valid port (0-65535) but got", CoerceKey)
        /\ craw \in {Str("3000"), Str(" 3000 ")} => cout = Ok(Num(3000))
        /\ craw \in {Str("0"), Num(0)} => cout = Ok(Num(0))
        /\ craw \in {Str("65535")} => cout = Ok(Num(65535))
        /\ craw \in {Str("70000"), Str("65536"), Str("80.5"), Str("-1"), Str("3000a"),
                     Str("a"), Str(" "), Str(""), Num(-7), Norm(75, 1), NaN, Null,
                     Bool(TRUE), Arr(<<>>)}
               => cout = Throw("expected valid port (0-65535) but got", CoerceKey)

\* the first number above the range
C25_Witness ==
    /\ cpc = "coerced"
    /\ crule = [type |-> "port"]
    /\ craw = Str("65536")
    /\ cout = Throw("expected valid port (0-65535) but got", CoerceKey)

\* C26: under a list rule with unique set, whenever some item fails the item
\* rule the error raised is that of the failing item of lowest index, with that
\* item's path, and never the uniqueness error, also when equal segments come
\* before the failing item
C26_CoerceBeforeUnique ==
    (cpc # "input" /\ crule.type = "list" /\ Flag(crule, "unique") /\ RawItems.ok
         /\ FailingItems(RawItems.v.a) # {}) =>
        /\ ~cout.ok
        /\ cout.msg # "expected list items to be unique"
        /\ cout = ItemResult(RawItems.v.a, Least(FailingItems(RawItems.v.a)))
        /\ StartsWith(cout.path, ItemPath(CoerceKey, Least(FailingItems(RawItems.v.a)) - 1))
        /\ (craw = Str("7,7,a") /\ crule.itemType = [type |-> "int"])
               => cout = Throw("expected number but got", "K[2]")
        /\ (craw = Str("a,7,7") /\ crule.itemType = [type |-> "int"])
               => cout = Throw("expected number but got", "K[0]")
        /\ (craw = Str("7,7,a") /\ crule.itemType = [type |-> "json"])
               => cout = Throw("expected valid JSON: SyntaxError", "K[2]")

\* two equal segments before a segment the int rule rejects
C26_Witness ==
    /\ cpc = "coerced"
    /\ crule = [type |-> "list", itemType |-> [type |-> "int"], unique |-> TRUE]
    /\ craw = Str("7,7,a")
    /\ cout = Throw("expected number but got", "K[2]")

\* C27: a number, int or float rule with positive set accepts a value only if it
\* is greater than zero, and a rule with negative set accepts a value only if
\* it is less than zero; raw "-1" fails under positive and raw "1" under negative
C27_StrictSign ==
    (cpc # "input" /\ crule.type \in NumberKinds) =>
        /\ (Flag(crule, "positive") /\ cout.ok) => NumLt(Num(0), cout.v)
        /\ (Flag(crule, "negative") /\ cout.ok) => NumLt(cout.v, Num(0))
        /\ (Flag(crule, "positive") /\ craw = Str("-1"))
               => cout = Throw("expected number to be positive", CoerceKey)
        /\ (Flag(crule, "negative") /\ craw = Str("1"))
               => cout = Throw("expected number to be negative", CoerceKey)

\* what the sign checks of lines 148-154 do: positive turns down the values
\* below zero, negative the values above zero, and zero passes both
C27_ZeroPassesBoth ==
    (cpc # "input" /\ crule.type \in NumberKinds /\ rawNumber(craw, CoerceKey).ok
         /\ (crule.type = "int" => IsInteger(rawNumber(craw, CoerceKey).v))
         /\ (Flag(crule, "positive") \/ Flag(crule, "negative"))) =>
        LET n == rawNumber(craw, CoerceKey).v
        IN  cout = IF Flag(crule, "positive") /\ NumLt(n, Num(0))
                   THEN Throw("expected number to be positive", CoerceKey)
                   ELSE IF Flag(crule, "negative") /\ NumLt(Num(0), n)
                   THEN Throw("expected number to be negative", CoerceKey)
                   ELSE Ok(n)

\* zero is accepted by a rule with positive set
C27_Witness ==
    /\ cpc = "coerced"
    /\ crule = [type |-> "number", positive |-> TRUE]
    /\ craw = Str("0")
    /\ cout = Ok(Num(0))

\* a <= b for two numbers, false when either is NaN
NumLe(a, b) == ~IsNaN(a) /\ ~IsNaN(b) /\ ~NumLt(b, a)

\* n is within the min and max of the rule, for the bounds that are given
WithinMinMax(n) ==
    /\ Has(crule, "min") => NumLe(crule.min, n)
    /\ Has(crule, "max") => NumLe(n, crule.max)

\* n is within the range tuple of the rule, when one is given
WithinRange(n) ==
    Has(crule, "range") => (NumLe(crule.range[1], n) /\ NumLe(n, crule.range[2]))

\* C28: under a number, int or float rule min, max and the range tuple are
\* inclusive and checked independently: a value n is accepted only if
\* min <= n <= max for the bounds given and lo <= n <= hi when range = [lo, hi]
\* is given; a value inside min/max and outside range fails, and so does a value
\* inside range and outside min/max
C28_BoundsAndRange ==
    (cpc # "input" /\ crule.type \in NumberKinds /\ cout.ok) =>
        (WithinMinMax(cout.v) /\ WithinRange(cout.v))

\* the bounds of lines 156-173 for every value other than NaN: the value is
\* returned exactly when it is within min/max and within range, the bounds
\* themselves included, and the error names the first check that fails
C28_BoundsOfNumbers ==
    (cpc # "input" /\ crule.type \in NumberKinds /\ rawNumber(craw, CoerceKey).ok
         /\ ~IsNaN(rawNumber(craw, CoerceKey).v)
         /\ (crule.type = "int" => IsInteger(rawNumber(craw, CoerceKey).v))
         /\ ~Flag(crule, "positive") /\ ~Flag(crule, "negative")) =>
        LET n == rawNumber(craw, CoerceKey).v
        IN  /\ cout.ok <=> (WithinMinMax(n) /\ WithinRange(n))
            /\ cout.ok => cout.v = n
            /\ (Has(crule, "min") /\ ~NumLe(crule.min, n))
                   => cout = Throw("expected number to be >=", CoerceKey)
            /\ (WithinMinMax(n) /\ ~WithinRange(n))
                   => cout = Throw("expected number to be within range", CoerceKey)
            /\ (crule = [type |-> "number", min |-> Num(5), max |-> Num(70),
                         range |-> <<Num(0), Num(7)>>])
                   => /\ craw \in {Str("5"), Str("7"), Num(7)} => cout.ok
                      /\ craw \in {Str("50"), Str("70"), Str("7.5")}
                             => cout = Throw("expected number to be within range", CoerceKey)
                      /\ craw \in {Str("0"), Num(0)}
                             => cout = Throw("expected number to be >=", CoerceKey)
                      /\ craw \in {Str("75")}
                             => cout = Throw("expected number to be <=", CoerceKey)

\* the raw number NaN is returned by a rule with min and max
C28_Witness ==
    /\ cpc = "coerced"
    /\ crule = [type |-> "number", min |-> Num(5), max |-> Num(70)]
    /\ craw = NaN
    /\ cout = Ok(NaN)

\* d is within minMs and maxMs of the rule, for the bounds that are given
WithinMs(d) ==
    /\ Has(crule, "minMs") => NumLe(crule.minMs, d)
    /\ Has(crule, "maxMs") => NumLe(d, crule.maxMs)

\* C29: every value a duration rule returns is a finite number d of
\* milliseconds with minMs <= d <= maxMs for the bounds given, both inclusive
\* and compared after the unit conversion: with minMs 1000 the raw "500" fails
\* with 'expected duration to be >=' and "1s" is accepted as exactly 1000; with
\* no minMs a negative duration such as "-5s" is accepted
C29_DurationBounds ==
    (cpc # "input" /\ crule.type = "duration") =>
        /\ cout.ok => /\ TypeOf(cout.v) = "number"
                      /\ ~IsNaN(cout.v)
                      /\ WithinMs(cout.v)
        /\ (rawDuration(craw, CoerceKey).ok /\ ~IsNaN(rawDuration(craw, CoerceKey).v))
               => /\ cout.ok <=> WithinMs(rawDuration(craw, CoerceKey).v)
                  /\ cout.ok => cout.v = rawDuration(craw, CoerceKey).v
        /\ (Has(crule, "minMs") /\ crule.minMs = Num(1000))
               => /\ craw = Str("500") => cout = Throw("expected duration to be >=", CoerceKey)
                  /\ craw = Str("0.5s") => cout = Throw("expected duration to be >=", CoerceKey)
                  /\ craw \in {Str("1s"), Str("1000"), Num(1000)} => cout = Ok(Num(1000))
        /\ (Has(crule, "maxMs") /\ crule.maxMs = Num(60000))
               => /\ craw = Str("60s") => cout = Ok(Num(60000))
                  /\ craw = Str("61s") => cout = Throw("expected duration to be <=", CoerceKey)
        /\ ~Has(crule, "minMs")
               => /\ (craw = Str("-5s") /\ ~Has(crule, "maxMs")) => cout = Ok(Num(-5000))
                  /\ (craw = Str("-5s") /\ crule = [type |-> "duration", maxMs |-> Num(0)])
                         => cout = Ok(Num(-5000))
        /\ craw = NaN => cout = Throw("expected finite duration but got", CoerceKey)

\* one second meets a lower bound of 1000 milliseconds
C29_Witness ==
    /\ cpc = "coerced"
    /\ crule = [type |-> "duration", minMs |-> Num(1000)]
    /\ craw = Str("1s")
    /\ cout = Ok(Num(1000))

\* the entry's rule applied to the raw value process.env holds for its key
OfRaw(entry) == validateValue(entry[2], env[entry[1]], entry[1])

\* entry i of `entries` has a raw value and a default: the map holds the coercion
\* of the raw value, and a raw value the rule rejects ends the construction
\* with its error when no entry before it has failed
RawOverDefaultIn(entries) ==
    \A i \in 1..Len(entries) :
        (~MissingRaw(entries[i][1]) /\ ~NoDefault(entries[i][2])) =>
            /\ pc = "ready" =>
                   /\ OfRaw(entries[i]).ok
                   /\ entries[i][1] \in DOMAIN values
                   /\ values[entries[i][1]] = OfRaw(entries[i]).v
            /\ ~OfRaw(entries[i]).ok =>
                   /\ pc = "failed"
                   /\ built = None
                   /\ (\A j \in 1..(i - 1) : Expected(entries[j]).ok) => error = OfRaw(entries[i])
            /\ (entries[i][2].type = "duration" /\ env[entries[i][1]] = Str("7") /\ pc = "ready")
                   => values[entries[i][1]] = Num(7)
            /\ (entries[i][2].type = "duration" /\ env[entries[i][1]] = Str("[7]"))
                   => pc = "failed"
            /\ (entries[i][2].type = "int" /\ env[entries[i][1]] = Str("7") /\ pc = "ready")
                   => values[entries[i][1]] = Num(7)
            /\ (entries[i][2].type = "int" /\ env[entries[i][1]] \in {Str("[7]"), Str("[7.5]")})
                   => pc = "failed"

\* C30: when the raw value of a schema key is present and not empty the rule's
\* defaultValue is never used: the stored value is the coercion of the raw
\* value, and a raw value that fails validation makes Env.create fail without
\* falling back to the default, also when required is false
C30_RawOverDefault == Constructed => RawOverDefaultIn(ObjectEntries(schema))

\* an optional int entry with the default 5 and the raw value "[7]": no instance
C30_Witness ==
    /\ pc = "failed"
    /\ changes = 0
    /\ built = None
    /\ Len(schema) = 1
    /\ schema[1][2] = [type |-> "int", required |-> FALSE, defaultValue |-> Num(5)]
    /\ env[schema[1][1]] = Str("[7]")
    /\ error = Throw("expected number but got", schema[1][1])

====
